---- MODULE Spec2Model ----
(***************************************************************************)
(* b2-go: one-shot incremental backup of a source tree to a B2 bucket.     *)
(* The model follows src/main.go: isExcluded, scanAndCompareFiles,         *)
(* getB2Files, uploadFileToB2, deleteB2File, manageRetention,              *)
(* loadLocalState, saveLocalState and main.  One behaviour is a sequence   *)
(* of runs of main with edits of the source tree between them.             *)
(***************************************************************************)
EXTENDS Integers, Sequences, FiniteSets, TLC

(***************************************************************************)
(* Bounds of the model.                                                    *)
(***************************************************************************)
\* number of runs of main in one behaviour
MaxRuns == 2
\* number of edits of the source tree in one behaviour
MaxEdits == 2

(***************************************************************************)
(* Strings.  Go strings are modelled by TLA+ strings; the operators below  *)
(* are the functions of package strings and path/filepath the code calls.  *)
(***************************************************************************)
Char(s, i) == SubSeq(s, i, i)

Drop(s, n) == SubSeq(s, n + 1, Len(s))

HasPrefix(s, pre) ==
  /\ Len(pre) <= Len(s)
  /\ SubSeq(s, 1, Len(pre)) = pre

HasSuffix(s, suf) ==
  /\ Len(suf) <= Len(s)
  /\ SubSeq(s, Len(s) - Len(suf) + 1, Len(s)) = suf

TrimPrefix(s, pre) == IF HasPrefix(s, pre) THEN Drop(s, Len(pre)) ELSE s

TrimSuffix(s, suf) ==
  IF HasSuffix(s, suf) THEN SubSeq(s, 1, Len(s) - Len(suf)) ELSE s

Contains(s, c) == \E i \in 1..Len(s) : Char(s, i) = c

IsSpace(c) == c \in {" ", "\t", "\n", "\r"}

RECURSIVE TrimLeft(_)
TrimLeft(s) ==
  IF Len(s) > 0 /\ IsSpace(Char(s, 1)) THEN TrimLeft(Drop(s, 1)) ELSE s

RECURSIVE TrimRight(_)
TrimRight(s) ==
  IF Len(s) > 0 /\ IsSpace(Char(s, Len(s)))
  THEN TrimRight(SubSeq(s, 1, Len(s) - 1))
  ELSE s

TrimSpace(s) == TrimRight(TrimLeft(s))

\* filepath.Base: the last element of the path, trailing slashes removed
RECURSIVE StripSlashes(_)
StripSlashes(s) ==
  IF Len(s) > 0 /\ Char(s, Len(s)) = "/"
  THEN StripSlashes(SubSeq(s, 1, Len(s) - 1))
  ELSE s

RECURSIVE LastElem(_)
LastElem(s) ==
  IF Contains(s, "/")
  THEN LastElem(Drop(s, CHOOSE i \in 1..Len(s) : Char(s, i) = "/"))
  ELSE s

Base(path) ==
  IF path = "" THEN "."
  ELSE LET t == StripSlashes(path)
       IN  IF t = "" THEN "/" ELSE LastElem(t)

\* filepath.Match for patterns built from literals, '*' and '?': '*' matches
\* any sequence of non-separator characters, '?' one non-separator character
RECURSIVE Match(_, _)
Match(pattern, name) ==
  IF pattern = "" THEN name = ""
  ELSE LET p == Char(pattern, 1)
           rest == Drop(pattern, 1)
       IN  CASE p = "*" ->
                  \E k \in 0..Len(name) :
                     /\ ~ Contains(SubSeq(name, 1, k), "/")
                     /\ Match(rest, Drop(name, k))
             [] p = "?" ->
                  /\ Len(name) > 0
                  /\ Char(name, 1) # "/"
                  /\ Match(rest, Drop(name, 1))
             [] OTHER ->
                  /\ Len(name) > 0
                  /\ Char(name, 1) = p
                  /\ Match(rest, Drop(name, 1))

\* an iteration that matches every glob against the whole path
PatternExcludesWholePath(relPath, rawPattern) ==
  LET pattern == TrimSpace(rawPattern)
  IN  IF pattern = "" THEN FALSE
      ELSE IF HasSuffix(pattern, "/")
      THEN LET dirPattern == TrimSuffix(pattern, "/")
           IN  \/ HasPrefix(relPath, dirPattern \o "/")
               \/ relPath = dirPattern
               \/ Match(pattern, relPath)
      ELSE Match(pattern, relPath)

\* one iteration of the loop of isExcluded: does this pattern exclude relPath
PatternExcludes(relPath, rawPattern) ==
  LET pattern == TrimSpace(rawPattern)
  IN  IF pattern = "" THEN FALSE
      ELSE IF HasSuffix(pattern, "/")
      THEN LET dirPattern == TrimSuffix(pattern, "/")
           IN  \/ HasPrefix(relPath, dirPattern \o "/")
               \/ relPath = dirPattern
               \/ Match(pattern, relPath)
      ELSE IF Contains(pattern, "/")
      THEN Match(pattern, relPath)
      ELSE Match(pattern, Base(relPath))

\* an exclusion list of which only the first pattern counts
isExcludedFirstOnly(path, patterns) ==
  Len(patterns) > 0 /\ PatternExcludes(path, patterns[1])

\* an exclusion list that excludes nothing
excludesNothing(path, patterns) == FALSE

\* lines 110-151: isExcluded
isExcluded(path, patterns) ==
  \E i \in 1..Len(patterns) : PatternExcludes(path, patterns[i])

getMetadataFileName(remotePath) == remotePath \o ".meta"

(***************************************************************************)
(* Configuration (Config, loadConfig, and the defaults main applies).      *)
(***************************************************************************)
\* config.BackupPrefix after main has added the trailing slash
BackupPrefix == "backups/"

\* config.ExcludePatterns: EXCLUDE_PATTERNS split at ","
ExcludePatterns == <<"*.tmp", ".git/">>

\* METADATA_STRATEGY x ENABLE_METADATA_CHECK x SYNC_DELETE x RETENTION_DAYS.
\* EnableMetadataCheck is read only under strategy "full", so FALSE is
\* drawn with "full" alone.
Configs ==
  { c \in [ SourceDir : {"/data"},
            BucketName : {"bucket"},
            AccountID : {"id"},
            ApplicationKey : {"key"},
            MetadataStrategy : {"none", "basic", "full"},
            EnableMetadataCheck : BOOLEAN,
            SyncDelete : BOOLEAN,
            RetentionDays : {0, 1} ] :
      c.MetadataStrategy # "full" => c.EnableMetadataCheck }

\* environments in which one of the four required variables is not set
BadConfigs ==
  { c \in [ SourceDir : {"", "/data"},
            BucketName : {"", "bucket"},
            AccountID : {"", "id"},
            ApplicationKey : {"", "key"},
            MetadataStrategy : {"basic"},
            EnableMetadataCheck : {TRUE},
            SyncDelete : {TRUE},
            RetentionDays : {1} ] :
      Cardinality({i \in 1..4 :
                     <<c.SourceDir, c.BucketName, c.AccountID,
                       c.ApplicationKey>>[i] = ""}) = 1 }

\* a configuration that checks only the source directory
MissingSourceOnly(c) == c.SourceDir = ""

\* lines 573-574: a required variable is missing
MissingRequired(c) ==
  \/ c.SourceDir = ""
  \/ c.BucketName = ""
  \/ c.AccountID = ""
  \/ c.ApplicationKey = ""

\* no run is in progress: no configuration is loaded
NoConfig ==
  [SourceDir |-> "", BucketName |-> "", AccountID |-> "",
   ApplicationKey |-> "", MetadataStrategy |-> "",
   EnableMetadataCheck |-> FALSE, SyncDelete |-> FALSE, RetentionDays |-> 0]

(***************************************************************************)
(* The source tree.  WalkEntries is the order in which filepath.Walk       *)
(* reports the entries of SourceDir (lexical order, a directory before     *)
(* its children).                                                          *)
(***************************************************************************)
WalkEntries == <<".", "b.tmp", "d", "d/c.txt", "e.txt">>

Dirs == {".", "d"}

Entries == {WalkEntries[i] : i \in 1..Len(WalkEntries)}

FilePaths == Entries \ Dirs

\* content 0 is a file that exists but cannot be opened for reading
Contents == 0..3

\* modification times a file can carry
MTimes == {1, 2}

\* info.Size(): contents 1 and 2 have the same length
SizeOf(c) == IF c = 3 THEN 2 ELSE 1

\* the SHA-1 digest of a content (distinct contents, distinct digests)
DigestOf(c) == 40 + c

NoEntry == [kind |-> "none", content |-> 0, mtime |-> 0]

DirEntry(ok) == [kind |-> IF ok THEN "dir" ELSE "baddir", content |-> 0, mtime |-> 0]

FileEntry(c, m) == [kind |-> "file", content |-> c, mtime |-> m]

\* what an entry of the tree can be
EntryDomain(p) ==
  IF p \in Dirs THEN {DirEntry(TRUE), DirEntry(FALSE)}
  ELSE IF p = "e.txt"
  THEN {NoEntry} \cup {FileEntry(c, m) : c \in Contents, m \in MTimes}
  ELSE {NoEntry, FileEntry(1, 1)} \cup
       (IF p = "d/c.txt" THEN {FileEntry(0, 1)} ELSE {})

\* a fingerprint that reports no failure
fileChecksumLenient(info) ==
  [ok |-> info.kind = "file", sum |-> DigestOf(info.content)]

\* fileChecksum: fails on a file that cannot be read
fileChecksum(info) ==
  IF info.kind = "file" /\ info.content # 0
  THEN [ok |-> TRUE, sum |-> DigestOf(info.content)]
  ELSE [ok |-> FALSE, sum |-> 0]

(***************************************************************************)
(* The manifest (LocalState) and its records (FileState).                  *)
(***************************************************************************)
NewFileState(p, info, checksum) ==
  [Path |-> p, Size |-> SizeOf(info.content), ModTime |-> info.mtime,
   Checksum |-> checksum, BackedUp |-> FALSE]

EmptyFiles == [p \in {} |-> NewFileState(p, NoEntry, 0)]

EmptyState == [LastBackup |-> 0, Files |-> EmptyFiles]

RemoveKey(f, k) == [q \in (DOMAIN f) \ {k} |-> f[q]]

PutKey(f, k, v) == [q \in (DOMAIN f) \cup {k} |-> IF q = k THEN v ELSE f[q]]

(***************************************************************************)
(* scanAndCompareFiles: the body of the walk callback for one regular      *)
(* file.  files is state.Files, changed the changed-file list; the list    *)
(* holds paths, each standing for the pointer to state.Files[path].        *)
(***************************************************************************)
\* a modified test that looks at the record, the modification time and the
\* size only
ModifiedCheap(exists, existing, info, checksum) ==
  \/ ~ exists
  \/ info.mtime > existing.ModTime
  \/ SizeOf(info.content) # existing.Size

\* lines 248-251
Modified(exists, existing, info, checksum) ==
  \/ ~ exists
  \/ info.mtime > existing.ModTime
  \/ SizeOf(info.content) # existing.Size
  \/ checksum # existing.Checksum

\* a metadata-only update that keeps the stored modification time
MetadataOnlyUpdateKeepTime(existing, info) ==
  [existing EXCEPT !.Size = SizeOf(info.content), !.BackedUp = TRUE]

\* lines 263-265
MetadataOnlyUpdate(existing, info) ==
  [existing EXCEPT !.ModTime = info.mtime,
                   !.Size = SizeOf(info.content),
                   !.BackedUp = TRUE]

\* an unmodified file whose record is left as it is
MarkUnchangedKeepsFlag(existing) == existing

\* lines 255
MarkUnchanged(existing) == [existing EXCEPT !.BackedUp = TRUE]

\* a scan that reports a changed file twice
RecordChangedTwice(files, changed, p, info, checksum) ==
  [files |-> PutKey(files, p, NewFileState(p, info, checksum)),
   changed |-> Append(Append(changed, p), p)]

\* a scan that reports a changed file without writing its new record to
\* the manifest
RecordChangedNoStore(files, changed, p, info, checksum) ==
  [files |-> files, changed |-> Append(changed, p)]

\* lines 271-281
RecordChanged(files, changed, p, info, checksum) ==
  [files |-> PutKey(files, p, NewFileState(p, info, checksum)),
   changed |-> Append(changed, p)]

\* a callback without the test of the exclude patterns
ScanFileNoExclude(files, changed, p, info) ==
  LET exists == p \in DOMAIN files
      existing == files[p]
      cs == fileChecksum(info)
      r == IF ~ cs.ok THEN [files |-> files, changed |-> changed]
           ELSE IF ~ Modified(exists, existing, info, cs.sum)
           THEN [files |-> PutKey(files, p, MarkUnchanged(existing)),
                 changed |-> changed]
           ELSE IF exists /\ cs.sum = existing.Checksum
           THEN [files |-> PutKey(files, p,
                                  MetadataOnlyUpdate(existing, info)),
                 changed |-> changed]
           ELSE RecordChanged(files, changed, p, info, cs.sum)
  IN  [files |-> r.files, changed |-> r.changed, hashed |-> TRUE]

\* lines 232-285.  hashed: fileChecksum was called on the file
ScanFile(files, changed, p, info) ==
  IF isExcluded(p, ExcludePatterns)
  THEN [files |-> files, changed |-> changed, hashed |-> FALSE]
  ELSE
    LET exists == p \in DOMAIN files
        existing == files[p]
        cs == fileChecksum(info)
        r == IF ~ cs.ok THEN [files |-> files, changed |-> changed]
             ELSE IF ~ Modified(exists, existing, info, cs.sum)
             THEN [files |-> PutKey(files, p, MarkUnchanged(existing)),
                   changed |-> changed]
             ELSE IF exists /\ cs.sum = existing.Checksum
             THEN [files |-> PutKey(files, p, MetadataOnlyUpdate(existing, info)),
                   changed |-> changed]
             ELSE RecordChanged(files, changed, p, info, cs.sum)
    IN  [files |-> r.files, changed |-> r.changed, hashed |-> TRUE]

\* lines 214-289: the whole walk from entry i on; err: the walk has
\* returned an error (lines 218-220, 286-288)
RECURSIVE ScanFrom(_, _, _, _)
ScanFrom(tree, files, changed, i) ==
  IF i > Len(WalkEntries)
  THEN [files |-> files, changed |-> changed, err |-> FALSE]
  ELSE LET p == WalkEntries[i]
           info == tree[p]
       IN  IF info.kind = "baddir"
           THEN [files |-> files, changed |-> changed, err |-> TRUE]
           ELSE IF info.kind = "file"
           THEN LET r == ScanFile(files, changed, p, info)
                IN  ScanFrom(tree, r.files, r.changed, i + 1)
           ELSE ScanFrom(tree, files, changed, i + 1)

\* lines 214-289: scanAndCompareFiles on a manifest
scanAndCompareFiles(tree, st) == ScanFrom(tree, st.Files, <<>>, 1)

(***************************************************************************)
(* The bucket.  RemoteNames lists the object names in the order in which   *)
(* bucket.List returns them (byte order of the names).  An object of the   *)
(* backup holds the content of the file it was written from, a companion   *)
(* ".meta" object the checksum stored in it; ts is the upload timestamp.   *)
(***************************************************************************)
RemoteNames ==
  <<"backups/b.tmp", "backups/d/c.txt", "backups/d/c.txt.meta",
    "backups/e.txt", "backups/e.txt.meta", "e.txt">>

NameSet == {RemoteNames[i] : i \in 1..Len(RemoteNames)}

NoObject == [present |-> FALSE, data |-> 0, size |-> 0, ts |-> 0]

Object(d, sz, t) == [present |-> TRUE, data |-> d, size |-> sz, ts |-> t]

EmptyBucket == [n \in NameSet |-> NoObject]

\* an installation in use: both files were backed up by a run at time 0,
\* and the bucket also holds an object of another application outside the
\* backup prefix
UsedTree ==
  [p \in Entries |->
     IF p \in Dirs THEN DirEntry(TRUE)
     ELSE IF p = "b.tmp" THEN NoEntry ELSE FileEntry(1, 1)]

UsedState ==
  [LastBackup |-> 0,
   Files |-> [p \in {"d/c.txt", "e.txt"} |->
                [NewFileState(p, FileEntry(1, 1), DigestOf(1))
                   EXCEPT !.BackedUp = TRUE]]]

UsedBucket ==
  [n \in NameSet |->
     IF n \in {"backups/d/c.txt", "backups/e.txt"}
     THEN Object(1, SizeOf(1), 0)
     ELSE IF n = "e.txt" THEN Object(0, 1, 0)
     ELSE NoObject]

VARIABLES
  fs,            \* the source tree: entry -> what is there
  disk,          \* the manifest file at LocalStatePath
  remote,        \* the bucket: object name -> object
  now,           \* the clock, in days: the time of the current run
  cfg,           \* the configuration the current run has loaded
  edits,         \* edits of the source tree so far
  pc,            \* where main is
  exitCode,      \* exit status of the run that has ended (-1: none)
  state,         \* localState
  changedFiles,  \* changedFiles of main
  walkIdx,       \* the entry filepath.Walk reports next
  scanErr,       \* the walk has returned an error
  hashed,        \* history: the files this run has fingerprinted
  b2Files,       \* b2Files of main: relative name -> object name
  stats,         \* stats of main
  upIdx,         \* the upload loop's position in changedFiles
  delTodo,       \* keys of localState.Files the deletion loop has yet to reach
  retIdx,        \* the object manageRetention's iterator returns next
  state0,        \* history: the manifest as loaded at the start of the run
  disk0,         \* history: the manifest file as it was at the start of the run
  lastUp,        \* history: what the last call of uploadFileToB2 saw and did
  events,        \* history: the phases of the run, in order
  upLog,         \* history: the upload loop's calls, <<path, outcome>>
  okUploads,     \* history: <<path, checksum>> whose upload ever returned nil
  delLog,        \* history: <<path, run, deleted, companion>> of every call
                 \* of deleteB2File the deletion loop made
  lastRet,       \* history: what the retention sweep did to the last object
  remoteFail,    \* history: a remote upload or delete of this run failed
  saveFailed,    \* history: saveLocalState of this run returned an error
  startDeleted,  \* history: paths to propagate the deletion of, at run start
  pass,          \* change detection alone: which pass is running
  firstChanged,  \* change detection alone: the first pass's result
  probe,         \* isExcluded alone: the call's arguments and its result
  backup,        \* StateManager alone: the file LocalStatePath + ".backup"
  sm,            \* StateManager alone: the call in progress or just ended
  runs,          \* two invocations at once: the memory of each process
  world          \* two orchestrators side by side: what each one runs on

vars ==
  <<fs, disk, remote, now, cfg, edits, pc, exitCode, state,
    changedFiles, walkIdx, scanErr, hashed, b2Files, stats, upIdx, delTodo,
    retIdx, state0, disk0, lastUp, events, upLog, okUploads, delLog, lastRet,
    remoteFail, saveFailed, startDeleted, pass, firstChanged, probe, backup,
    sm, runs, world>>

\* the variables of a run of main and of its environment
mainVars ==
  <<fs, disk, remote, now, cfg, edits, pc, exitCode, state,
    changedFiles, walkIdx, scanErr, hashed, b2Files, stats, upIdx, delTodo,
    retIdx, state0, disk0, lastUp, events, upLog, okUploads, delLog, lastRet,
    remoteFail, saveFailed, startDeleted, pass, firstChanged>>

\* all of them but the manifest file
mainButDisk ==
  <<fs, remote, now, cfg, edits, pc, exitCode, state,
    changedFiles, walkIdx, scanErr, hashed, b2Files, stats, upIdx, delTodo,
    retIdx, state0, disk0, lastUp, events, upLog, okUploads, delLog, lastRet,
    remoteFail, saveFailed, startDeleted, pass, firstChanged>>

\* all of them but the manifest file and the bucket
mainButStores ==
  <<fs, now, cfg, edits, pc, exitCode, state,
    changedFiles, walkIdx, scanErr, hashed, b2Files, stats, upIdx, delTodo,
    retIdx, state0, disk0, lastUp, events, upLog, okUploads, delLog, lastRet,
    remoteFail, saveFailed, startDeleted, pass, firstChanged>>

\* the variables of the components checked on their own
sideVars == <<probe, backup, sm, runs, world>>

envVars == <<fs, edits>>

histVars ==
  <<events, upLog, okUploads, delLog, lastRet, remoteFail, saveFailed, hashed>>

detectVars == <<pass, firstChanged>>

NoUp ==
  [path |-> "", attrs |-> FALSE, size |-> 0, metaRead |-> FALSE,
   metaSum |-> 0, result |-> "", meta |-> "none"]

NoRet == [name |-> "", ts |-> 0, attrs |-> FALSE, del |-> "none"]

ZeroStats == [uploaded |-> 0, deleted |-> 0, skipped |-> 0, failed |-> 0]

NoDisk == [kind |-> "none", st |-> EmptyState]

EmptyTree ==
  [p \in Entries |-> IF p \in Dirs THEN DirEntry(TRUE) ELSE NoEntry]

\* append a phase to the history unless it is the current one
Phase(ev, tag) ==
  IF Len(ev) > 0 /\ ev[Len(ev)] = tag THEN ev ELSE Append(ev, tag)

\* the next entry at or after position i that exists in the tree
RECURSIVE NextVisit(_, _)
NextVisit(tree, i) ==
  IF i > Len(WalkEntries) \/ tree[WalkEntries[i]].kind # "none" THEN i
  ELSE NextVisit(tree, i + 1)

\* the next object at or after position i that the listing returns
RECURSIVE NextObject(_, _)
NextObject(bucket, i) ==
  IF i > Len(RemoteNames) \/ bucket[RemoteNames[i]].present THEN i
  ELSE NextObject(bucket, i + 1)

\* no call of isExcluded
NoProbe ==
  [path |-> "", patterns |-> <<>>, called |-> FALSE, result |-> FALSE,
   last |-> "none", prev |-> FALSE]

\* the invocations that run at the same time
Procs == {1, 2}

\* the memory of an invocation: main's variables, and as history the paths
\* it removed from its manifest after deleting their object (removed), the
\* paths whose upload returned nil (sent), whether saveLocalState succeeded
\* (saved) and whether it ran while the other one did (overlapped)
NoRun ==
  [pc |-> "idle", state |-> EmptyState, changedFiles |-> <<>>,
   b2Files |-> <<>>, stats |-> ZeroStats, upIdx |-> 0, delTodo |-> {},
   removed |-> {}, sent |-> {}, saved |-> FALSE, overlapped |-> FALSE]

NoRuns == [i \in Procs |-> NoRun]

\* what an orchestrator runs on: the directory of the manifest file (dir:
\* it exists), the file, the bucket; calls: the uploads and deletes it has
\* issued; retIdx: the position of its retention sweep
NoWorld ==
  [dir |-> TRUE, disk |-> NoDisk, remote |-> EmptyBucket, calls |-> <<>>,
   retIdx |-> 0, exitCode |-> -1]

NoWorlds == [i \in Procs |-> NoWorld]

\* no call of a StateManager method; kept: what the backup file holds when
\* the last BackupState that wrote it has succeeded
NoCall ==
  [op |-> "none", step |-> "idle", data |-> NoDisk, kept |-> NoDisk,
   calls |-> 0]

\* the components checked on their own are not in use
SideIdle ==
  /\ probe = NoProbe /\ backup = NoDisk /\ sm = NoCall /\ runs = NoRuns
  /\ world = NoWorlds

\* a new installation, or one in use
Init ==
  /\ \E used \in BOOLEAN :
       /\ fs = IF used THEN UsedTree ELSE EmptyTree
       /\ disk = IF used THEN [kind |-> "ok", st |-> UsedState] ELSE NoDisk
       /\ remote = IF used THEN UsedBucket ELSE EmptyBucket
       /\ okUploads = IF used
                      THEN {<<p, DigestOf(1)>> : p \in DOMAIN UsedState.Files}
                      ELSE {}
  /\ now = 0
  /\ cfg = NoConfig
  /\ edits = 0
  /\ pc = "idle"
  /\ exitCode = -1
  /\ state = EmptyState
  /\ delLog = {}
  /\ changedFiles = <<>>
  /\ walkIdx = 0
  /\ scanErr = FALSE
  /\ hashed = {}
  /\ b2Files = <<>>
  /\ stats = ZeroStats
  /\ upIdx = 0
  /\ delTodo = {}
  /\ retIdx = 0
  /\ state0 = EmptyState
  /\ events = <<>>
  /\ upLog = <<>>
  /\ lastRet = NoRet
  /\ remoteFail = FALSE
  /\ saveFailed = FALSE
  /\ startDeleted = {}
  /\ disk0 = NoDisk
  /\ lastUp = NoUp
  /\ pass = 0
  /\ firstChanged = <<>>
  /\ SideIdle

(***************************************************************************)
(* The environment between two runs.                                       *)
(***************************************************************************)
\* a file is created, rewritten, touched or removed; a directory loses or
\* regains its read permission
Edit ==
  /\ pc = "idle"
  /\ edits < MaxEdits
  /\ \E p \in Entries : \E v \in EntryDomain(p) \ {fs[p]} :
        fs' = [fs EXCEPT ![p] = v]
  /\ edits' = edits + 1
  /\ UNCHANGED <<disk, remote, now, cfg, pc, exitCode, state,
                 changedFiles, walkIdx, scanErr, b2Files, stats, upIdx,
                 delTodo, retIdx, state0, startDeleted>>
  /\ UNCHANGED histVars
  /\ UNCHANGED detectVars
  /\ UNCHANGED <<disk0, lastUp>>
  /\ UNCHANGED sideVars

(***************************************************************************)
(* main, up to the upload loop.                                            *)
(***************************************************************************)
\* a main that writes its manifest before it gives up
FatalAfterSave ==
  /\ pc' = "done"
  /\ exitCode' = 1
  /\ disk' = [kind |-> "ok", st |-> state]

\* the run ends through log.Fatal / log.Fatalf: the process exits with
\* status 1 at once, nothing is written
Fatal ==
  /\ pc' = "done"
  /\ exitCode' = 1
  /\ disk' = disk

\* a load that takes a file it cannot decode for an empty manifest
loadLenient(d) ==
  [err |-> FALSE, st |-> IF d.kind = "ok" THEN d.st ELSE EmptyState]

\* a load that does not read the file
loadNothing(d) == [err |-> FALSE, st |-> EmptyState]

\* lines 170-194: loadLocalState.  No file: an empty state; a file that
\* cannot be opened or decoded: an error
loadLocalState(d) ==
  [err |-> d.kind = "corrupt",
   st |-> IF d.kind = "ok" THEN d.st ELSE EmptyState]

\* paths of the loaded manifest whose file is gone, whose remote object
\* exists and that no pattern excludes, under sync-delete
DeletedAtStart(c, loaded) ==
  {p \in DOMAIN loaded.Files :
     /\ c.SyncDelete
     /\ fs[p].kind = "none"
     /\ ~ isExcluded(p, ExcludePatterns)
     /\ remote[BackupPrefix \o p].present}

\* lines 565-604: main starts, checks the configuration, loads the
\* manifest and begins the scan
Start ==
  /\ pc = "idle"
  /\ now < MaxRuns
  /\ now' = now + 1
  /\ cfg' \in Configs \cup BadConfigs
  /\ disk0' = disk
  /\ UNCHANGED sideVars
  /\ IF MissingRequired(cfg')
     THEN /\ Fatal
          /\ UNCHANGED <<state, state0, walkIdx, startDeleted>>
     ELSE IF loadLocalState(disk).err
     THEN /\ Fatal
          /\ UNCHANGED <<state, state0, walkIdx, startDeleted>>
     ELSE /\ pc' = "scan"
          /\ state' = loadLocalState(disk).st
          /\ state0' = loadLocalState(disk).st
          /\ startDeleted' = DeletedAtStart(cfg', loadLocalState(disk).st)
          /\ walkIdx' = NextVisit(fs, 1)
          /\ UNCHANGED <<exitCode, disk>>
  /\ UNCHANGED <<remote, changedFiles, scanErr, b2Files, stats,
                 upIdx, delTodo, retIdx>>
  /\ UNCHANGED envVars
  /\ UNCHANGED histVars
  /\ UNCHANGED detectVars
  /\ UNCHANGED lastUp

\* lines 217-286: filepath.Walk calls the callback for the next entry.  A
\* directory that cannot be read is reported with an error, the callback
\* returns it and the walk ends with that error (lines 218-220)
WalkStep ==
  /\ pc = "scan"
  /\ walkIdx <= Len(WalkEntries)
  /\ LET p == WalkEntries[walkIdx]
         info == fs[p]
     IN  IF info.kind = "baddir"
         THEN /\ scanErr' = TRUE
              /\ walkIdx' = Len(WalkEntries) + 1
              /\ UNCHANGED <<state, changedFiles, hashed>>
         ELSE /\ IF info.kind = "dir"
                 THEN UNCHANGED <<state, changedFiles, hashed>>
                 ELSE LET r == ScanFile(state.Files, changedFiles, p, info)
                      IN  /\ state' = [state EXCEPT !.Files = r.files]
                          /\ changedFiles' = r.changed
                          /\ hashed' = IF r.hashed THEN hashed \cup {p}
                                       ELSE hashed
              /\ walkIdx' = NextVisit(fs, walkIdx + 1)
              /\ UNCHANGED scanErr
  /\ events' = Phase(events, "walk")
  /\ UNCHANGED <<disk, remote, cfg, now, pc, exitCode, b2Files, stats, upIdx,
                 delTodo, retIdx, state0, startDeleted>>
  /\ UNCHANGED envVars
  /\ UNCHANGED <<upLog, okUploads, delLog, lastRet, remoteFail, saveFailed>>
  /\ UNCHANGED detectVars
  /\ UNCHANGED <<disk0, lastUp>>
  /\ UNCHANGED sideVars

\* a main that runs the retention sweep before the deletion loop
NextPhaseRetentionFirst(phase, c) ==
  CASE phase = "scan" -> "connect"
    [] phase = "connect" -> "upload"
    [] phase = "upload" -> "retention"
    [] phase = "retention" -> IF c.SyncDelete THEN "delete" ELSE "save"
    [] phase = "delete" -> "save"
    [] OTHER -> "notify"

\* lines 603-725: the order of main's phases
NextPhase(phase, c) ==
  CASE phase = "scan" -> "connect"
    [] phase = "connect" -> "upload"
    [] phase = "upload" -> IF c.SyncDelete THEN "delete" ELSE "retention"
    [] phase = "delete" -> "retention"
    [] phase = "retention" -> "save"
    [] OTHER -> "notify"

\* main leaves a phase and enters the next: the deletion loop starts to
\* range over localState.Files (line 663), manageRetention opens its
\* listing when retention is on (lines 690-692, 480)
Advance ==
  /\ pc' = NextPhase(pc, cfg)
  /\ delTodo' = IF pc' = "delete" THEN DOMAIN state.Files ELSE delTodo
  /\ retIdx' = IF pc' = "retention" THEN NextObject(remote, 1) ELSE retIdx
  /\ events' =
       IF pc' = "delete" THEN Phase(events, "deleteloop")
       ELSE IF pc' = "retention" /\ cfg.RetentionDays > 0
       THEN Phase(events, "sweep")
       ELSE events

\* lines 605-615: the scan has returned; with nothing changed main returns
ScanDone ==
  /\ pc = "scan"
  /\ pass = 0
  /\ walkIdx > Len(WalkEntries)
  /\ IF scanErr
     THEN Fatal
     ELSE IF Len(changedFiles) = 0
     THEN /\ pc' = "done"
          /\ exitCode' = 0
          /\ UNCHANGED disk
     ELSE /\ pc' = NextPhase(pc, cfg)
          /\ UNCHANGED <<exitCode, disk>>
  /\ UNCHANGED <<remote, cfg, now, state, changedFiles, walkIdx,
                 scanErr, b2Files, stats, upIdx, delTodo, retIdx, state0,
                 startDeleted>>
  /\ UNCHANGED envVars
  /\ UNCHANGED histVars
  /\ UNCHANGED detectVars
  /\ UNCHANGED <<disk0, lastUp>>
  /\ UNCHANGED sideVars

\* lines 291-317: getB2Files; a later object replaces an earlier one that
\* has the same name once the prefix is trimmed
getB2Files(bucket) ==
  LET present == {i \in 1..Len(RemoteNames) : bucket[RemoteNames[i]].present}
      key(i) == TrimPrefix(RemoteNames[i], BackupPrefix)
      last(k) == CHOOSE i \in present :
                   /\ key(i) = k
                   /\ \A j \in present : key(j) = k => j <= i
  IN  [k \in {key(i) : i \in present} |-> RemoteNames[last(k)]]

\* lines 617-644: connect, fetch the bucket and the file list
Connect ==
  /\ pc = "connect"
  /\ \/ /\ Fatal
        /\ UNCHANGED <<b2Files, stats, upIdx>>
     \/ /\ b2Files' = getB2Files(remote)
        /\ stats' = ZeroStats
        /\ upIdx' = 1
        /\ pc' = NextPhase(pc, cfg)
        /\ UNCHANGED <<exitCode, disk>>
  /\ UNCHANGED <<remote, cfg, now, state, changedFiles, walkIdx,
                 scanErr, delTodo, retIdx, state0, startDeleted>>
  /\ UNCHANGED envVars
  /\ UNCHANGED histVars
  /\ UNCHANGED detectVars
  /\ UNCHANGED <<disk0, lastUp>>
  /\ UNCHANGED sideVars

(***************************************************************************)
(* uploadFileToB2 and the upload loop.                                     *)
(***************************************************************************)
\* a duplicate check that compares sizes under every strategy
ShouldSkipBySize(c, bucket, p, info, checksum, attrsOk, metaOk) ==
  LET obj == bucket[BackupPrefix \o p]
  IN  obj.present /\ attrsOk /\ SizeOf(info.content) = obj.size

\* lines 324-369: the transfer is skipped.  attrsOk: remoteObj.Attrs
\* returned no error; metaOk: the companion object could be read
ShouldSkip(c, bucket, p, info, checksum, attrsOk, metaOk) ==
  LET obj == bucket[BackupPrefix \o p]
      meta == bucket[BackupPrefix \o getMetadataFileName(p)]
  IN  /\ obj.present
      /\ attrsOk
      /\ CASE c.MetadataStrategy = "full" ->
                /\ c.EnableMetadataCheck
                /\ meta.present
                /\ metaOk
                /\ meta.data = checksum
           [] c.MetadataStrategy = "none" -> FALSE
           [] OTHER -> SizeOf(info.content) = obj.size

\* a transfer that creates the object and writes nothing into it
PutEmptyObject(bucket, p, info, t) ==
  [bucket EXCEPT ![BackupPrefix \o p] = Object(0, 0, t)]

\* lines 371-391: the file's content replaces the object
PutObject(bucket, p, info, t) ==
  [bucket EXCEPT ![BackupPrefix \o p] =
     Object(info.content, SizeOf(info.content), t)]

\* a metadata store that writes nothing
storeNothing(bucket, p, checksum, size, t) == bucket

\* lines 520-545: storeFileMetadata.  The companion object holds the
\* checksum (data) and the size of the file (size)
storeFileMetadata(bucket, p, checksum, size, t) ==
  [bucket EXCEPT ![BackupPrefix \o getMetadataFileName(p)] =
     Object(checksum, size, t)]

\* lines 393-406: the companion object is written under "full"
WritesMetadata(c) == c.EnableMetadataCheck /\ c.MetadataStrategy = "full"

\* a loop that marks the file as backed up whatever the upload returned
CountUploadAlwaysMarks(st, counters, p, ok) ==
  [state |-> [st EXCEPT !.Files[p].BackedUp = TRUE],
   stats |-> IF ok THEN [counters EXCEPT !.uploaded = @ + 1]
             ELSE [counters EXCEPT !.failed = @ + 1]]

\* a bookkeeping that counts a failed upload as uploaded
CountUploadCountsAll(st, counters, p, ok) ==
  [state |-> IF ok THEN [st EXCEPT !.Files[p].BackedUp = TRUE] ELSE st,
   stats |-> [counters EXCEPT !.uploaded = @ + 1]]

\* lines 651-657: the loop's bookkeeping for one file
CountUpload(st, counters, p, ok) ==
  IF ok
  THEN [state |-> [st EXCEPT !.Files[p].BackedUp = TRUE],
        stats |-> [counters EXCEPT !.uploaded = @ + 1]]
  ELSE [state |-> st,
        stats |-> [counters EXCEPT !.failed = @ + 1]]

\* lines 647-658: one iteration of the upload loop
UploadStep ==
  /\ pc = "upload"
  /\ upIdx <= Len(changedFiles)
  /\ LET p == changedFiles[upIdx]
         checksum == state.Files[p].Checksum
         info == fs[p]
     IN  \E attrsOk, metaOk, sent, metaStored \in BOOLEAN :
           LET skip == ShouldSkip(cfg, remote, p, info, checksum, attrsOk, metaOk)
               ok == skip \/ sent
               b1 == IF ~ skip /\ sent
                     THEN PutObject(remote, p, info, now) ELSE remote
               b2 == IF ~ skip /\ sent /\ WritesMetadata(cfg) /\ metaStored
                     THEN storeFileMetadata(b1, p, checksum,
                                            SizeOf(info.content), now)
                     ELSE b1
               r == CountUpload(state, stats, p, ok)
           IN  /\ remote' = b2
               /\ state' = r.state
               /\ stats' = r.stats
               /\ upLog' = Append(upLog,
                    <<p, IF skip THEN "skipped"
                         ELSE IF sent THEN "sent" ELSE "failed">>)
               /\ okUploads' = IF ok THEN okUploads \cup {<<p, checksum>>}
                               ELSE okUploads
               /\ remoteFail' = (remoteFail \/ ~ ok)
               /\ lastUp' =
                    LET obj == remote[BackupPrefix \o p]
                        meta == remote[BackupPrefix \o getMetadataFileName(p)]
                    IN  [path |-> p,
                         attrs |-> obj.present /\ attrsOk,
                         size |-> obj.size,
                         metaRead |-> meta.present /\ metaOk,
                         metaSum |-> meta.data,
                         result |-> IF skip THEN "skipped"
                                    ELSE IF sent THEN "sent" ELSE "failed",
                         meta |-> IF skip \/ ~ sent \/ ~ WritesMetadata(cfg)
                                  THEN "none"
                                  ELSE IF metaStored THEN "stored"
                                  ELSE "failed"]
  /\ upIdx' = upIdx + 1
  /\ events' = Phase(events, "upload")
  /\ UNCHANGED <<disk, cfg, now, pc, exitCode, changedFiles, walkIdx,
                 scanErr, b2Files, delTodo, retIdx, state0, startDeleted>>
  /\ UNCHANGED envVars
  /\ UNCHANGED <<delLog, lastRet, saveFailed, hashed>>
  /\ UNCHANGED detectVars
  /\ UNCHANGED disk0
  /\ UNCHANGED sideVars

\* lines 658-661: the upload loop has ended
UploadDone ==
  /\ pc = "upload"
  /\ upIdx > Len(changedFiles)
  /\ Advance
  /\ UNCHANGED <<disk, remote, cfg, now, exitCode, state, changedFiles,
                 walkIdx, scanErr, b2Files, stats, upIdx, state0,
                 startDeleted>>
  /\ UNCHANGED envVars
  /\ UNCHANGED <<upLog, okUploads, delLog, lastRet, remoteFail, saveFailed, hashed>>
  /\ UNCHANGED detectVars
  /\ UNCHANGED disk0
  /\ UNCHANGED sideVars
  /\ lastUp' = NoUp

(***************************************************************************)
(* deleteB2File and the deletion loop.                                     *)
(***************************************************************************)
\* a delete that leaves the companion object
deleteB2FileKeepsMeta(bucket, name, c, metaGone) ==
  [bucket EXCEPT ![name] = NoObject]

\* lines 412-436: the object is deleted and, under "full", its companion
\* (metaGone: that second delete succeeded)
deleteB2File(bucket, name, c, metaGone) ==
  LET b1 == [bucket EXCEPT ![name] = NoObject]
      metaName == BackupPrefix \o
                    getMetadataFileName(TrimPrefix(name, BackupPrefix))
  IN  IF WritesMetadata(c) /\ metaGone /\ metaName \in NameSet
      THEN [b1 EXCEPT ![metaName] = NoObject]
      ELSE b1

\* lines 414-432: what a call of deleteB2File did about the companion
\* object: no delete issued, deleted, or a delete that returned an error
CompanionDelete(c, deleted, metaGone) ==
  IF ~ deleted \/ ~ WritesMetadata(c) THEN "none"
  ELSE IF metaGone THEN "deleted" ELSE "failed"

\* lines 663-685: one iteration of the deletion loop (Go ranges over the
\* map in no fixed order)
DeleteStep ==
  /\ pc = "delete"
  /\ \E p \in delTodo :
       /\ delTodo' = delTodo \ {p}
       /\ IF fs[p].kind # "none"
          THEN UNCHANGED <<remote, state, stats, remoteFail, events, delLog>>
          ELSE IF isExcluded(p, ExcludePatterns)
          THEN /\ stats' = [stats EXCEPT !.skipped = @ + 1]
               /\ UNCHANGED <<remote, state, remoteFail, events, delLog>>
          ELSE IF p \notin DOMAIN b2Files
          THEN UNCHANGED <<remote, state, stats, remoteFail, events, delLog>>
          ELSE \E deleted, metaGone \in BOOLEAN :
                 /\ events' = Phase(events, "syncdel")
                 /\ delLog' = delLog \cup
                      {<<p, now, deleted,
                         CompanionDelete(cfg, deleted, metaGone)>>}
                 /\ IF deleted
                    THEN /\ remote' = deleteB2File(remote, b2Files[p], cfg, metaGone)
                         /\ stats' = [stats EXCEPT !.deleted = @ + 1]
                         /\ state' = [state EXCEPT !.Files = RemoveKey(@, p)]
                         /\ UNCHANGED remoteFail
                    ELSE /\ stats' = [stats EXCEPT !.failed = @ + 1]
                         /\ remoteFail' = TRUE
                         /\ UNCHANGED <<remote, state>>
  /\ UNCHANGED <<disk, cfg, now, pc, exitCode, changedFiles, walkIdx,
                 scanErr, b2Files, upIdx, retIdx, state0, startDeleted>>
  /\ UNCHANGED envVars
  /\ UNCHANGED <<upLog, okUploads, lastRet, saveFailed, hashed>>
  /\ UNCHANGED detectVars
  /\ UNCHANGED <<disk0, lastUp>>
  /\ UNCHANGED sideVars

\* lines 686-689: the deletion loop has ended
DeleteDone ==
  /\ pc = "delete"
  /\ delTodo = {}
  /\ Advance
  /\ UNCHANGED <<disk, remote, cfg, now, exitCode, state, changedFiles,
                 walkIdx, scanErr, b2Files, stats, upIdx, state0,
                 startDeleted>>
  /\ UNCHANGED envVars
  /\ UNCHANGED <<upLog, okUploads, delLog, lastRet, remoteFail, saveFailed, hashed>>
  /\ UNCHANGED detectVars
  /\ UNCHANGED <<disk0, lastUp>>
  /\ UNCHANGED sideVars

(***************************************************************************)
(* manageRetention.                                                        *)
(***************************************************************************)
\* line 483: time.Now().AddDate(0, 0, -config.RetentionDays)
retentionCutoff(c, t) == t - c.RetentionDays

\* a sweep that also takes the objects uploaded exactly at the cutoff
ExpiredOrAtCutoff(c, name, obj, t) ==
  /\ HasPrefix(name, BackupPrefix)
  /\ obj.ts <= retentionCutoff(c, t)

\* lines 489 and 501: the object is in the backup and older than the cutoff
Expired(c, name, obj, t) ==
  /\ HasPrefix(name, BackupPrefix)
  /\ obj.ts < retentionCutoff(c, t)

\* lines 485-510: one iteration of the sweep.  attrsOk: obj.Attrs returned
\* no error; deleted: obj.Delete returned no error
RetentionStep ==
  /\ pc = "retention"
  /\ cfg.RetentionDays > 0
  /\ retIdx <= Len(RemoteNames)
  /\ LET name == RemoteNames[retIdx]
         obj == remote[name]
     IN  \E attrsOk, deleted \in BOOLEAN :
           LET issue == attrsOk /\ Expired(cfg, name, obj, now)
           IN  /\ remote' = IF issue /\ deleted
                            THEN [remote EXCEPT ![name] = NoObject]
                            ELSE remote
               /\ lastRet' =
                    [name |-> name, ts |-> obj.ts, attrs |-> attrsOk,
                     del |-> IF ~ issue THEN "none"
                             ELSE IF deleted THEN "ok" ELSE "failed"]
               /\ remoteFail' = (remoteFail \/ (issue /\ ~ deleted))
               /\ events' = IF issue THEN Phase(events, "retdel") ELSE events
               /\ retIdx' = NextObject(remote', retIdx + 1)
  /\ UNCHANGED <<disk, cfg, now, pc, exitCode, state, changedFiles, walkIdx,
                 scanErr, b2Files, stats, upIdx, delTodo, state0,
                 startDeleted>>
  /\ UNCHANGED envVars
  /\ UNCHANGED <<upLog, okUploads, delLog, saveFailed, hashed>>
  /\ UNCHANGED detectVars
  /\ UNCHANGED <<disk0, lastUp>>
  /\ UNCHANGED sideVars

\* lines 690-695 and 512: retention is off, or the sweep has ended: its
\* iterator is exhausted or has failed (the error is only logged)
RetentionEnd ==
  /\ pc = "retention"
  /\ Advance
  /\ lastRet' = NoRet
  /\ UNCHANGED <<disk, remote, cfg, now, exitCode, state, changedFiles,
                 walkIdx, scanErr, b2Files, stats, upIdx, state0,
                 startDeleted>>
  /\ UNCHANGED envVars
  /\ UNCHANGED <<upLog, okUploads, delLog, remoteFail, saveFailed, hashed>>
  /\ UNCHANGED detectVars
  /\ UNCHANGED <<disk0, lastUp>>
  /\ UNCHANGED sideVars

(***************************************************************************)
(* The end of main.                                                        *)
(***************************************************************************)
\* lines 197-211: saveLocalState.  os.Create can fail, leaving the file as
\* it was, and Encode can fail after os.Create has truncated the file
saveLocalState(d, st, outcome) ==
  CASE outcome = "saved" -> [kind |-> "ok", st |-> st]
    [] outcome = "nocreate" -> d
    [] OTHER -> [kind |-> "corrupt", st |-> EmptyState]

\* lines 697-705
Save ==
  /\ pc = "save"
  /\ \E outcome \in {"saved", "nocreate", "partial"} :
       /\ state' = [state EXCEPT !.LastBackup = now]
       /\ disk' = saveLocalState(disk, state', outcome)
       /\ saveFailed' = (outcome # "saved")
  /\ events' = Phase(events, "save")
  /\ pc' = NextPhase(pc, cfg)
  /\ UNCHANGED <<remote, cfg, now, exitCode, changedFiles, walkIdx, scanErr,
                 b2Files, stats, upIdx, delTodo, retIdx, state0,
                 startDeleted>>
  /\ UNCHANGED envVars
  /\ UNCHANGED <<upLog, okUploads, delLog, lastRet, remoteFail, hashed>>
  /\ UNCHANGED detectVars
  /\ UNCHANGED <<disk0, lastUp>>
  /\ UNCHANGED sideVars

\* line 718: success
Success(counters) == counters.failed = 0

\* lines 707-725: the notification is sent and the process exits; its
\* memory is lost, the manifest file and the bucket stay
Notify ==
  /\ pc = "notify"
  /\ events' = Phase(events, "notify")
  /\ pc' = "done"
  /\ exitCode' = IF Success(stats) THEN 0 ELSE 1
  /\ state' = EmptyState
  /\ changedFiles' = <<>>
  /\ walkIdx' = 0
  /\ b2Files' = <<>>
  /\ stats' = ZeroStats
  /\ upIdx' = 0
  /\ retIdx' = 0
  /\ state0' = EmptyState
  /\ upLog' = <<>>
  /\ cfg' = NoConfig
  /\ UNCHANGED <<disk, remote, now, scanErr, delTodo, startDeleted>>
  /\ UNCHANGED envVars
  /\ UNCHANGED <<okUploads, delLog, lastRet, remoteFail, saveFailed, hashed>>
  /\ UNCHANGED detectVars
  /\ UNCHANGED <<disk0, lastUp>>
  /\ UNCHANGED sideVars

\* the exit status has been collected; the next run can start
Exit ==
  /\ pc = "done"
  /\ pc' = "idle"
  /\ exitCode' = -1
  /\ state' = EmptyState
  /\ changedFiles' = <<>>
  /\ walkIdx' = 0
  /\ scanErr' = FALSE
  /\ b2Files' = <<>>
  /\ stats' = ZeroStats
  /\ upIdx' = 0
  /\ delTodo' = {}
  /\ retIdx' = 0
  /\ state0' = EmptyState
  /\ events' = <<>>
  /\ upLog' = <<>>
  /\ lastRet' = NoRet
  /\ remoteFail' = FALSE
  /\ saveFailed' = FALSE
  /\ hashed' = {}
  /\ startDeleted' = {}
  /\ cfg' = NoConfig
  /\ UNCHANGED <<disk, remote, now, okUploads, delLog>>
  /\ UNCHANGED envVars
  /\ UNCHANGED detectVars
  /\ disk0' = NoDisk
  /\ UNCHANGED sideVars
  /\ UNCHANGED lastUp

Next ==
  \/ Edit
  \/ Start
  \/ WalkStep
  \/ ScanDone
  \/ Connect
  \/ UploadStep
  \/ UploadDone
  \/ DeleteStep
  \/ DeleteDone
  \/ RetentionStep
  \/ RetentionEnd
  \/ Save
  \/ Notify
  \/ Exit

Spec == Init /\ [][Next]_vars

(***************************************************************************)
(* Change detection on its own: scanAndCompareFiles is run twice on the    *)
(* same in-memory manifest over a tree that does not change in between.    *)
(* The tree and the manifest are drawn from every value they can have.     *)
(***************************************************************************)
Trees ==
  {[p \in Entries |->
      CASE p = "." -> root [] p = "d" -> d [] p = "b.tmp" -> b
        [] p = "d/c.txt" -> c [] OTHER -> e] :
     root \in EntryDomain("."), d \in EntryDomain("d"),
     b \in EntryDomain("b.tmp"), c \in EntryDomain("d/c.txt"),
     e \in EntryDomain("e.txt")}

\* the records a manifest can hold for a path: the file as it was at an
\* earlier scan, uploaded or not
RecordsOf(p) ==
  {[NewFileState(p, info, DigestOf(info.content)) EXCEPT !.BackedUp = b] :
     info \in {i \in EntryDomain(p) : i.kind = "file" /\ i.content # 0},
     b \in BOOLEAN}

Manifests ==
  {f \in UNION {[S -> UNION {RecordsOf(p) : p \in FilePaths}] :
                  S \in SUBSET FilePaths} :
     \A p \in DOMAIN f : f[p] \in RecordsOf(p)}

InitDetect ==
  /\ fs \in Trees
  /\ state \in [LastBackup : {0}, Files : Manifests]
  /\ state0 = state
  /\ disk = NoDisk
  /\ remote = EmptyBucket
  /\ now = 1
  /\ cfg = NoConfig
  /\ edits = 0
  /\ pc = "scan"
  /\ exitCode = -1
  /\ changedFiles = <<>>
  /\ walkIdx = NextVisit(fs, 1)
  /\ scanErr = FALSE
  /\ hashed = {}
  /\ b2Files = <<>>
  /\ stats = ZeroStats
  /\ upIdx = 0
  /\ delTodo = {}
  /\ retIdx = 0
  /\ events = <<>>
  /\ upLog = <<>>
  /\ okUploads = {}
  /\ delLog = {}
  /\ lastRet = NoRet
  /\ remoteFail = FALSE
  /\ saveFailed = FALSE
  /\ startDeleted = {}
  /\ disk0 = NoDisk
  /\ lastUp = NoUp
  /\ pass = 1
  /\ firstChanged = <<>>
  /\ SideIdle

\* the first call has returned; scanAndCompareFiles is called again with
\* the manifest the first call left (lines 214-216: a fresh changed list)
Rescan ==
  /\ pc = "scan"
  /\ pass = 1
  /\ walkIdx > Len(WalkEntries)
  /\ pass' = 2
  /\ firstChanged' = changedFiles
  /\ changedFiles' = <<>>
  /\ walkIdx' = NextVisit(fs, 1)
  /\ scanErr' = FALSE
  /\ hashed' = {}
  /\ UNCHANGED <<disk, remote, cfg, now, pc, exitCode, state, b2Files, stats,
                 upIdx, delTodo, retIdx, state0, startDeleted>>
  /\ UNCHANGED envVars
  /\ UNCHANGED <<events, upLog, okUploads, delLog, lastRet, remoteFail, saveFailed>>
  /\ UNCHANGED <<disk0, lastUp>>
  /\ UNCHANGED sideVars

\* the second call has returned (line 288)
DetectDone ==
  /\ pc = "scan"
  /\ pass = 2
  /\ walkIdx > Len(WalkEntries)
  /\ pc' = "scanned"
  /\ UNCHANGED <<disk, remote, cfg, now, exitCode, state, changedFiles,
                 walkIdx, scanErr, b2Files, stats, upIdx, delTodo, retIdx,
                 state0, startDeleted>>
  /\ UNCHANGED envVars
  /\ UNCHANGED histVars
  /\ UNCHANGED detectVars
  /\ UNCHANGED <<disk0, lastUp>>
  /\ UNCHANGED sideVars

NextDetect ==
  \/ WalkStep
  \/ Rescan
  \/ DetectDone

SpecDetect == InitDetect /\ [][NextDetect]_vars

(***************************************************************************)
(* Properties of change detection (SpecDetect).                            *)
(***************************************************************************)
\* C1: when change detection is run twice in a row on the same in-memory
\* manifest and no file of the tree changes in between, the second run
\* returns an empty changed list.
C1_SecondScanEmpty == pc = "scanned" => changedFiles = <<>>

\* the first scan found changed files and the second has returned
C1_Witness == pc = "scanned" /\ Len(firstChanged) = 2 /\ ~ scanErr

\* the first scan has walked the whole tree
ScanFinished ==
  pc = "scan" /\ pass <= 1 /\ walkIdx > Len(WalkEntries) /\ ~ scanErr

Range(seq) == {seq[i] : i \in 1..Len(seq)}

\* p is a regular file the scan looks at and the manifest had a record of
\* it when the scan began
HadRecord(p) ==
  /\ fs[p].kind = "file"
  /\ ~ isExcluded(p, ExcludePatterns)
  /\ p \in DOMAIN state0.Files

\* p's fingerprint can be computed and equals the recorded checksum
SameChecksum(p) ==
  /\ fileChecksum(fs[p]).ok
  /\ fileChecksum(fs[p]).sum = state0.Files[p].Checksum

\* the scan left p out of the changed list, updated the recorded
\* modification time and size and set uploaded
RefreshedOnly(p) ==
  /\ p \notin Range(changedFiles)
  /\ state.Files[p] =
       [state0.Files[p] EXCEPT !.ModTime = fs[p].mtime,
                               !.Size = SizeOf(fs[p].content),
                               !.BackedUp = TRUE]

\* C2 as stated: a file with a record whose modification time and/or size
\* differ from the record but whose fingerprint equals the recorded
\* checksum is not added to the changed set; its recorded modification
\* time and size are updated and uploaded is set to true.
C2_AnyDifference ==
  ScanFinished =>
    \A p \in FilePaths :
      ( /\ HadRecord(p)
        /\ SameChecksum(p)
        /\ \/ fs[p].mtime # state0.Files[p].ModTime
           \/ SizeOf(fs[p].content) # state0.Files[p].Size )
      => RefreshedOnly(p)

\* C2 amended: the same, for a file whose modification time is strictly
\* later than the recorded one and/or whose size differs from the recorded
\* one; a file with an earlier modification time, the same size and the
\* same fingerprint is not added either, and only uploaded is set.
C2_LaterOrResized ==
  ScanFinished =>
    \A p \in FilePaths :
      (HadRecord(p) /\ SameChecksum(p)) =>
        /\ p \notin Range(changedFiles)
        /\ state.Files[p].BackedUp
        /\ state.Files[p].Checksum = state0.Files[p].Checksum
        /\ ( \/ fs[p].mtime > state0.Files[p].ModTime
             \/ SizeOf(fs[p].content) # state0.Files[p].Size )
           => RefreshedOnly(p)
        /\ ( /\ fs[p].mtime < state0.Files[p].ModTime
             /\ SizeOf(fs[p].content) = state0.Files[p].Size )
           => state.Files[p] = [state0.Files[p] EXCEPT !.BackedUp = TRUE]

\* a touched file (later modification time, same content) has been scanned
C2_Witness ==
  /\ ScanFinished
  /\ HadRecord("e.txt")
  /\ SameChecksum("e.txt")
  /\ fs["e.txt"].mtime > state0.Files["e.txt"].ModTime
  /\ ~ state0.Files["e.txt"].BackedUp
  /\ RefreshedOnly("e.txt")

\* p has a record, its modification time is not after the recorded one and
\* its size is the recorded one
CheapUnmodified(p) ==
  /\ HadRecord(p)
  /\ fs[p].mtime <= state0.Files[p].ModTime
  /\ SizeOf(fs[p].content) = state0.Files[p].Size

\* C8 as stated: for a file with a record whose modification time is not
\* strictly after the stored one and whose size equals the stored size,
\* change detection computes no fingerprint, does not add the file to the
\* changed set whatever its content, and only sets uploaded = true.
C8_NoFingerprint ==
  ScanFinished =>
    \A p \in FilePaths :
      CheapUnmodified(p) =>
        /\ p \notin hashed
        /\ p \notin Range(changedFiles)
        /\ state.Files[p] = [state0.Files[p] EXCEPT !.BackedUp = TRUE]

\* C8 amended: the fingerprint of every regular file that is not excluded
\* is computed; for a file with a record whose modification time is not
\* strictly after the stored one and whose size equals the stored size,
\* the file is left out of the changed set and only uploaded = true is set
\* when the fingerprint equals the stored checksum, it is added to the
\* changed set with a fresh record (uploaded = false) when the fingerprint
\* differs, and its record is left untouched when the file cannot be read.
C8_FingerprintDecides ==
  ScanFinished =>
    \A p \in FilePaths :
      /\ (fs[p].kind = "file" /\ ~ isExcluded(p, ExcludePatterns))
           => p \in hashed
      /\ CheapUnmodified(p) =>
           IF ~ fileChecksum(fs[p]).ok
           THEN /\ p \notin Range(changedFiles)
                /\ state.Files[p] = state0.Files[p]
           ELSE IF SameChecksum(p)
           THEN /\ p \notin Range(changedFiles)
                /\ state.Files[p] = [state0.Files[p] EXCEPT !.BackedUp = TRUE]
           ELSE /\ p \in Range(changedFiles)
                /\ state.Files[p] =
                     [state0.Files[p] EXCEPT
                        !.Checksum = fileChecksum(fs[p]).sum,
                        !.ModTime = fs[p].mtime,
                        !.BackedUp = FALSE]

\* a file rewritten with content of the same length and no later
\* modification time has been scanned and reported as changed
C8_Witness ==
  /\ ScanFinished
  /\ CheapUnmodified("e.txt")
  /\ fileChecksum(fs["e.txt"]).ok
  /\ ~ SameChecksum("e.txt")
  /\ state0.Files["e.txt"].BackedUp
  /\ "e.txt" \in Range(changedFiles)

(***************************************************************************)
(* Properties of a run (Spec).                                             *)
(***************************************************************************)
UploadLoopOver == pc = "upload" /\ upIdx > Len(changedFiles)

\* the attempts of the upload loop that returned an error, and the others
FailedAttempts == {i \in DOMAIN upLog : upLog[i][2] = "failed"}

GoodAttempts == DOMAIN upLog \ FailedAttempts

\* C3: when the upload of some files fails and of others succeeds, the
\* failure counter is the number of failed uploads, a file whose upload
\* succeeded has uploaded = true and one whose upload failed uploaded =
\* false, every file of the changed list is attempted, and the run goes on
\* to the deletion loop (sync-delete on) and the retention sweep
\* (retention on).
C3_FailureIsolation ==
  /\ UploadLoopOver =>
       /\ Len(upLog) = Len(changedFiles)
       /\ \A i \in DOMAIN upLog : upLog[i][1] = changedFiles[i]
       /\ stats.failed = Cardinality(FailedAttempts)
       /\ \A i \in DOMAIN upLog :
            state.Files[upLog[i][1]].BackedUp <=> i \in GoodAttempts
  /\ (pc = "save" /\ FailedAttempts # {}) =>
       /\ cfg.SyncDelete => "deleteloop" \in Range(events)
       /\ cfg.RetentionDays > 0 => "sweep" \in Range(events)

\* of two changed files the first failed to upload, the second was
\* uploaded, and the run has gone through both later phases
C3_Witness ==
  /\ pc = "save"
  /\ Len(upLog) = 2
  /\ upLog[1][2] = "failed"
  /\ upLog[2][2] = "sent"
  /\ stats.failed = 1
  /\ "deleteloop" \in Range(events)
  /\ "sweep" \in Range(events)

\* C9: within a run a file detected as unchanged gets no upload attempt; a
\* file detected as changed gets exactly one attempt and ends either
\* uploaded (uploaded = true, counted as uploaded) or failed (uploaded =
\* false, counted as failed); no file is attempted twice and no file is
\* uploaded without having been detected as changed.
C9_OneAttemptPerChangedFile ==
  /\ \A i, j \in DOMAIN upLog : i # j => upLog[i][1] # upLog[j][1]
  /\ \A i \in DOMAIN upLog : upLog[i][1] \in Range(changedFiles)
  /\ pc \in {"upload", "delete", "retention", "save"} =>
       \A p \in Range(changedFiles) :
         \/ p \notin DOMAIN state0.Files
         \/ state0.Files[p].Checksum # state.Files[p].Checksum
  /\ pc \in {"delete", "retention", "save"} =>
       /\ {upLog[i][1] : i \in DOMAIN upLog} = Range(changedFiles)
       /\ \A i \in DOMAIN upLog :
            state.Files[upLog[i][1]].BackedUp <=> i \in GoodAttempts
       /\ stats.uploaded = Cardinality(GoodAttempts)
       /\ stats.failed >= Cardinality(FailedAttempts)
  /\ UploadLoopOver =>
       /\ stats.uploaded = Cardinality(GoodAttempts)
       /\ stats.failed = Cardinality(FailedAttempts)

\* a run with one unchanged file, which was not attempted, and one new
\* file, which was uploaded in one attempt
C9_Witness ==
  /\ pc = "save"
  /\ changedFiles = <<"e.txt">>
  /\ upLog = << <<"e.txt", "sent">> >>
  /\ "d/c.txt" \in DOMAIN state0.Files
  /\ "d/c.txt" \in hashed
  /\ stats.uploaded = 1

\* the place of an event in the order of a run
PhaseRank(tag) ==
  CASE tag = "walk" -> 1
    [] tag = "upload" -> 2
    [] tag = "deleteloop" -> 3
    [] tag = "syncdel" -> 4
    [] tag = "sweep" -> 5
    [] tag = "retdel" -> 6
    [] tag = "save" -> 7
    [] OTHER -> 8

\* the latest event a run can have issued at each position of main
ReachedRank ==
  CASE pc = "idle" -> 0
    [] pc \in {"scan", "connect"} -> 1
    [] pc = "upload" -> 2
    [] pc = "delete" -> 4
    [] pc \in {"retention", "save"} -> 6
    [] pc = "notify" -> 7
    [] OTHER -> 8

C4_DeletionPropagates ==
  (pc = "done" /\ exitCode = 0 /\ ~ saveFailed) =>
    \A p \in startDeleted :
      /\ ~ remote[BackupPrefix \o p].present
      /\ disk.kind = "ok"
      /\ p \notin DOMAIN disk.st.Files

\* C5 as stated: in every manifest state, in memory and as persisted, a
\* record has uploaded = true only if an upload of the content with the
\* record's checksum to prefix+path has succeeded or was judged a
\* duplicate; a record whose upload failed stays uploaded = false until a
\* later upload of it succeeds.
C5_UploadedMeansUploaded ==
  /\ \A p \in DOMAIN state.Files :
       state.Files[p].BackedUp => <<p, state.Files[p].Checksum>> \in okUploads
  /\ disk.kind = "ok" =>
       \A p \in DOMAIN disk.st.Files :
         disk.st.Files[p].BackedUp =>
           <<p, disk.st.Files[p].Checksum>> \in okUploads

\* C6: with retentionDays > 0 the sweep issues the deletion of an object
\* if and only if the object is under the prefix and its upload timestamp
\* is strictly before now - retentionDays (its attributes being readable),
\* whatever the manifest holds; an object at the cutoff or newer is kept;
\* with retentionDays <= 0 the sweep deletes nothing.
C6_RetentionDecision ==
  /\ (pc = "retention" /\ lastRet.name # "") =>
       /\ lastRet.del # "none" <=>
            /\ lastRet.attrs
            /\ HasPrefix(lastRet.name, BackupPrefix)
            /\ lastRet.ts < now - cfg.RetentionDays
       /\ lastRet.del = "ok" <=> ~ remote[lastRet.name].present
  /\ (pc \in {"retention", "save"} /\ cfg.RetentionDays <= 0) =>
       /\ lastRet = NoRet
       /\ "retdel" \notin Range(events)

\* the sweep has deleted the object of a file the manifest still holds as
\* uploaded, one tick older than the cutoff
C6_Witness ==
  /\ pc = "retention"
  /\ lastRet.name = "backups/e.txt"
  /\ lastRet.del = "ok"
  /\ lastRet.ts = now - cfg.RetentionDays - 1
  /\ "e.txt" \in DOMAIN state.Files
  /\ state.Files["e.txt"].BackedUp

\* C7 as stated: a run ends with a non-zero status when an upload or a
\* deletion it issued (upload loop, sync-delete loop or retention sweep)
\* failed, and with status 0 otherwise.  Stated for the runs that reach
\* the notification.
C7_StatusTellsFailure ==
  (pc = "done" /\ "notify" \in Range(events)) =>
    (exitCode # 0 <=> remoteFail)

\* C11 as stated: every run that loads the manifest and completes the walk
\* without a fatal error persists the manifest once at run end with
\* lastRun set to the run's time, runs in which no file changed included.
\* Stated for the runs that end with status 0.
C11_PersistedEveryRun ==
  (pc = "done" /\ exitCode = 0 /\ "walk" \in Range(events) /\ ~ scanErr) =>
    /\ "save" \in Range(events)
    /\ ~ saveFailed => (disk.kind = "ok" /\ disk.st.LastBackup = now)

\* the run went through change detection and ended in log.Fatalf before
\* the save: the connection, the bucket lookup or the listing failed
AbortedBeforeSave ==
  /\ pc = "done"
  /\ exitCode = 1
  /\ "walk" \in Range(events)
  /\ ~ scanErr
  /\ "notify" \notin Range(events)

\* C12: when a run aborts after change detection and before the save, the
\* manifest file is what it was at the start of the run, and a scan of the
\* same tree from that file reports the same changed files again.
C12_AbortKeepsManifest ==
  AbortedBeforeSave =>
    /\ disk = disk0
    /\ changedFiles # <<>>
    /\ scanAndCompareFiles(fs, disk.st).changed = changedFiles

\* a run that had rewritten records in memory aborted at the connection
C12_Witness ==
  /\ AbortedBeforeSave
  /\ disk.kind = "ok"
  /\ state # state0
  /\ changedFiles = <<"e.txt">>

\* C13: with no manifest file the run starts from an empty manifest (zero
\* LastBackup, no records) without error; with a file it starts from the
\* file's content; a file that cannot be opened or decoded makes the run
\* abort before any scan or remote call.
C13_ManifestLoad ==
  /\ pc \in {"scan", "connect", "upload", "delete", "retention", "save"} =>
       /\ disk0.kind # "corrupt"
       /\ disk0.kind = "none" => state0 = EmptyState
       /\ disk0.kind = "ok" => state0 = disk0.st
  /\ (pc = "done" /\ disk0.kind = "corrupt") =>
       /\ exitCode = 1
       /\ events = <<>>
       /\ hashed = {}
       /\ b2Files = <<>>
       /\ disk = disk0

\* a run found a manifest file it could not decode and aborted
C13_Witness ==
  /\ pc = "done"
  /\ disk0.kind = "corrupt"
  /\ cfg \in Configs
  /\ exitCode = 1
  /\ \E p \in FilePaths : fs[p].kind = "file"

\* C20: a run whose source directory, bucket name, account id or
\* application key is missing aborts with a failure status before the
\* manifest is loaded, the tree walked or a remote call made, and leaves
\* the manifest file as it was.
C20_ConfigFatal ==
  cfg \in BadConfigs =>
    /\ pc = "done"
    /\ exitCode = 1
    /\ state = EmptyState
    /\ state0 = EmptyState
    /\ walkIdx = 0
    /\ events = <<>>
    /\ hashed = {}
    /\ b2Files = <<>>
    /\ disk = disk0

\* a run without application key has aborted, an installation in use
C20_Witness ==
  /\ pc = "done"
  /\ cfg \in BadConfigs
  /\ cfg.ApplicationKey = ""
  /\ disk.kind = "ok"
  /\ DOMAIN disk.st.Files # {}
  /\ exitCode = 1

(***************************************************************************)
(* uploadFileToB2 on its own: one changed file is uploaded to a bucket     *)
(* that holds any earlier version of its object and of its companion,      *)
(* under every configuration.                                              *)
(***************************************************************************)
\* the versions an object of a file and its companion can be found in
ObjectVersions ==
  {NoObject} \cup {Object(d, SizeOf(d), 0) : d \in Contents \ {0}}

CompanionVersions ==
  {NoObject} \cup {Object(DigestOf(d), SizeOf(d), 0) : d \in Contents \ {0}}

InitUpload ==
  /\ \E c \in Contents \ {0} :
       /\ fs = [EmptyTree EXCEPT !["e.txt"] = FileEntry(c, 1)]
       /\ state = [LastBackup |-> 0,
                   Files |-> PutKey(EmptyFiles, "e.txt",
                               NewFileState("e.txt", FileEntry(c, 1),
                                            DigestOf(c)))]
  /\ \E obj \in ObjectVersions, meta \in CompanionVersions :
       remote = [EmptyBucket EXCEPT !["backups/e.txt"] = obj,
                                    !["backups/e.txt.meta"] = meta]
  /\ cfg \in Configs
  /\ state0 = EmptyState
  /\ disk = NoDisk
  /\ disk0 = NoDisk
  /\ now = 1
  /\ edits = 0
  /\ pc = "upload"
  /\ exitCode = -1
  /\ changedFiles = <<"e.txt">>
  /\ walkIdx = Len(WalkEntries) + 1
  /\ scanErr = FALSE
  /\ hashed = {"e.txt"}
  /\ b2Files = getB2Files(remote)
  /\ stats = ZeroStats
  /\ upIdx = 1
  /\ delTodo = {}
  /\ retIdx = 0
  /\ lastUp = NoUp
  /\ events = <<"walk">>
  /\ upLog = <<>>
  /\ okUploads = {}
  /\ delLog = {}
  /\ lastRet = NoRet
  /\ remoteFail = FALSE
  /\ saveFailed = FALSE
  /\ startDeleted = {}
  /\ pass = 0
  /\ firstChanged = <<>>
  /\ SideIdle

NextUpload ==
  \/ UploadStep
  \/ UploadDone

SpecUpload == InitUpload /\ [][NextUpload]_vars

\* the size and the checksum uploadFileToB2 was called with
LocalSize(p) == SizeOf(fs[p].content)

LocalChecksum(p) == state.Files[p].Checksum

\* C14 as stated: without a remote object at prefix+path the file is
\* transferred; with one, "none" transfers, "basic" skips if and only if
\* the object's size equals the file's size, "full" skips if and only if
\* the companion object is readable and holds the file's checksum.
C14_SkipByStrategy ==
  lastUp.path # "" =>
    ( lastUp.result = "skipped" <=>
        /\ lastUp.attrs
        /\ CASE cfg.MetadataStrategy = "none" -> FALSE
             [] cfg.MetadataStrategy = "basic" ->
                  lastUp.size = LocalSize(lastUp.path)
             [] OTHER ->
                  /\ lastUp.metaRead
                  /\ lastUp.metaSum = LocalChecksum(lastUp.path) )

\* C14 amended: the same, where "full" skips if and only if the metadata
\* check is enabled and the companion object is readable and holds the
\* file's checksum; "full" with the check disabled always transfers.  An
\* object exists for the decision when its attributes can be read.
C14_SkipByStrategyAndSwitch ==
  lastUp.path # "" =>
    ( lastUp.result = "skipped" <=>
        /\ lastUp.attrs
        /\ CASE cfg.MetadataStrategy = "none" -> FALSE
             [] cfg.MetadataStrategy = "basic" ->
                  lastUp.size = LocalSize(lastUp.path)
             [] OTHER ->
                  /\ cfg.EnableMetadataCheck
                  /\ lastUp.metaRead
                  /\ lastUp.metaSum = LocalChecksum(lastUp.path) )

\* under "full" a file whose companion holds its checksum was skipped,
\* although the object has another size
C14_Witness ==
  /\ lastUp.path = "e.txt"
  /\ cfg.MetadataStrategy = "full"
  /\ lastUp.result = "skipped"
  /\ lastUp.metaSum = LocalChecksum("e.txt")
  /\ lastUp.size # LocalSize("e.txt")

\* the companion object of the last upload
Companion == remote[BackupPrefix \o getMetadataFileName(lastUp.path)]

\* the upload loop has counted the last call as an upload
CountedAsUploaded ==
  /\ upLog[Len(upLog)] = <<lastUp.path, "sent">>
  /\ state.Files[lastUp.path].BackedUp
  /\ stats.uploaded = Cardinality(GoodAttempts)
  /\ stats.failed = Cardinality(FailedAttempts)

\* C15 as stated: under "full", after a transfer that succeeded, the upload
\* writes or replaces the companion object with the file's checksum and
\* size; when that write fails the upload still succeeds and is counted.
C15_CompanionUnderFull ==
  (lastUp.result = "sent" /\ cfg.MetadataStrategy = "full") =>
    /\ lastUp.meta # "none"
    /\ lastUp.meta = "stored" =>
         Companion = Object(LocalChecksum(lastUp.path),
                            LocalSize(lastUp.path), now)
    /\ CountedAsUploaded

\* C15 amended: the companion object is written after a transfer that
\* succeeded if and only if the strategy is "full" and the metadata check
\* is enabled; it then holds the file's checksum and size; when that write
\* fails the upload still succeeds and is counted as uploaded.
C15_CompanionUnderFullAndSwitch ==
  lastUp.result = "sent" =>
    /\ lastUp.meta # "none" <=>
         (cfg.MetadataStrategy = "full" /\ cfg.EnableMetadataCheck)
    /\ lastUp.meta = "stored" =>
         Companion = Object(LocalChecksum(lastUp.path),
                            LocalSize(lastUp.path), now)
    /\ CountedAsUploaded

\* the file was transferred, the write of its companion failed and the
\* upload is counted
C15_Witness ==
  /\ lastUp.result = "sent"
  /\ lastUp.meta = "failed"
  /\ Companion.present
  /\ Companion.data # LocalChecksum(lastUp.path)
  /\ CountedAsUploaded

(***************************************************************************)
(* The deletion loop on its own: the manifest of an installation whose     *)
(* exclusion list did not always hold "*.tmp" can have a record for b.tmp, *)
(* and the bucket an object for it.  One file was uploaded by this run;    *)
(* the other paths are recorded or not, on disk or not, in the bucket or   *)
(* not, and the bucket can hold an object outside the backup prefix and    *)
(* the companion objects an earlier run under "full" wrote.                *)
(***************************************************************************)
RecordedFile(p) ==
  [NewFileState(p, FileEntry(1, 1), DigestOf(1)) EXCEPT !.BackedUp = TRUE]

InitDelete ==
  /\ \E up \in {"d/c.txt", "e.txt"} :
       /\ changedFiles = <<up>>
       /\ upLog = <<<<up, "sent">>>>
       /\ okUploads = {<<up, DigestOf(1)>>}
       /\ delLog = {}
       /\ \E here \in SUBSET (FilePaths \ {up}) :
            fs = [p \in Entries |->
                    IF p \in Dirs THEN DirEntry(TRUE)
                    ELSE IF p \in here \cup {up} THEN FileEntry(1, 1)
                    ELSE NoEntry]
       /\ \E recorded \in SUBSET (FilePaths \ {up}) :
            state = [LastBackup |-> 0,
                     Files |-> [p \in recorded \cup {up} |-> RecordedFile(p)]]
  /\ \E stored \in SUBSET {"backups/b.tmp", "backups/d/c.txt",
                           "backups/e.txt", "e.txt"},
        companions \in SUBSET {"backups/d/c.txt.meta",
                               "backups/e.txt.meta"} :
       /\ BackupPrefix \o changedFiles[1] \in stored
       /\ remote = [n \in NameSet |->
                      IF n \in stored THEN Object(1, SizeOf(1), 0)
                      ELSE IF n \in companions
                      THEN Object(DigestOf(1), SizeOf(1), 0)
                      ELSE NoObject]
  /\ cfg \in {c \in Configs : c.SyncDelete}
  /\ state0 = state
  /\ disk = [kind |-> "ok", st |-> state]
  /\ disk0 = disk
  /\ now = 1
  /\ edits = 0
  /\ pc = "delete"
  /\ exitCode = -1
  /\ walkIdx = Len(WalkEntries) + 1
  /\ scanErr = FALSE
  /\ hashed = {p \in FilePaths : fs[p].kind = "file"
                                  /\ ~ isExcluded(p, ExcludePatterns)}
  /\ b2Files = getB2Files(remote)
  /\ stats = [ZeroStats EXCEPT !.uploaded = 1]
  /\ upIdx = 2
  /\ delTodo = DOMAIN state.Files
  /\ retIdx = 0
  /\ lastUp = NoUp
  /\ events = <<"walk", "upload", "deleteloop">>
  /\ lastRet = NoRet
  /\ remoteFail = FALSE
  /\ saveFailed = FALSE
  /\ startDeleted = {}
  /\ pass = 0
  /\ firstChanged = <<>>
  /\ SideIdle

NextDelete ==
  \/ DeleteStep
  \/ DeleteDone

SpecDelete == InitDelete /\ [][NextDelete]_vars

\* the manifest paths the pattern "*.tmp" of ExcludePatterns excludes
IsTmp(p) == HasSuffix(p, ".tmp")

\* C16: with sync-delete enabled, the iteration of the deletion loop for a
\* manifest path that no longer exists locally and matches an exclude
\* pattern adds one to the skipped counter and to no other counter, deletes
\* nothing in the bucket and leaves the manifest as it is.
C16_ExcludedSkippedNotDeleted ==
  [][ (pc = "delete" /\ cfg.SyncDelete) =>
        \A p \in delTodo \ delTodo' :
           (fs[p].kind = "none" /\ IsTmp(p)) =>
             /\ stats' = [stats EXCEPT !.skipped = @ + 1]
             /\ remote' = remote
             /\ state' = state
             /\ p \in DOMAIN state'.Files ]_vars

\* the loop has passed b.tmp, which is gone locally, recorded and stored:
\* it is counted as skipped and still stored, while d/c.txt was deleted
C16_Witness ==
  /\ pc = "delete"
  /\ delTodo = {}
  /\ "b.tmp" \in DOMAIN state.Files
  /\ fs["b.tmp"].kind = "none"
  /\ remote["backups/b.tmp"].present
  /\ stats.skipped = 1
  /\ stats.deleted = 1
  /\ "d/c.txt" \notin DOMAIN state.Files

\* the first call of scanAndCompareFiles has returned
WalkOver == pc = "scan" /\ pass <= 1 /\ walkIdx > Len(WalkEntries)

\* the tree without the sub-directories that cannot be read and what is
\* below them
WithoutBadDirs ==
  [p \in Entries |->
     IF p # "." /\ fs[p].kind = "baddir" THEN NoEntry
     ELSE IF p = "d/c.txt" /\ fs["d"].kind = "baddir" THEN NoEntry
     ELSE fs[p]]

\* C17: an error the walk reports for an entry other than the root makes
\* change detection skip that entry only: it returns without error, with the
\* changed files found among the remaining entries.
C17_WalkErrorIsolated ==
  (WalkOver /\ fs["."].kind = "dir") =>
    /\ ~ scanErr
    /\ changedFiles = scanAndCompareFiles(WithoutBadDirs, state0).changed

\* p is a file the scan looks at and cannot fingerprint
Unreadable(p) ==
  /\ fs[p].kind = "file"
  /\ fs[p].content = 0
  /\ ~ HasSuffix(p, ".tmp")

\* C18: a file whose fingerprint cannot be computed is skipped by change
\* detection: its manifest record, if any, stays as it was, it is not in
\* the changed set, and the walk goes on, so that change detection returns
\* what it returns on the tree without that file, and no error of its own.
C18_FingerprintFailureIsolated ==
  /\ (pc = "scan" /\ pass <= 1) =>
       \A p \in FilePaths :
          Unreadable(p) =>
            /\ \A i \in 1..Len(changedFiles) : changedFiles[i] # p
            /\ p \in DOMAIN state.Files <=> p \in DOMAIN state0.Files
            /\ p \in DOMAIN state0.Files => state.Files[p] = state0.Files[p]
  /\ WalkOver =>
       LET r == scanAndCompareFiles(
                  [p \in Entries |-> IF p \in FilePaths /\ Unreadable(p)
                                     THEN NoEntry ELSE fs[p]], state0)
       IN  /\ state.Files = r.files
           /\ changedFiles = r.changed
           /\ scanErr = r.err

\* d/c.txt is recorded and cannot be read; the walk went on to e.txt and
\* reported it, without error
C18_Witness ==
  /\ WalkOver
  /\ Unreadable("d/c.txt")
  /\ "d/c.txt" \in DOMAIN state0.Files
  /\ state.Files["d/c.txt"] = state0.Files["d/c.txt"]
  /\ changedFiles = <<"e.txt">>
  /\ ~ scanErr

\* C19: a run in which a remote call failed is not aborted by it: a run
\* that got past change detection and ends with a failure status has been
\* through manifest persistence and notification.
C19_RemoteFailureNeverAborts ==
  (pc = "done" /\ exitCode = 1 /\ "walk" \in Range(events) /\ ~ scanErr) =>
    /\ "save" \in Range(events)
    /\ "notify" \in Range(events)

(***************************************************************************)
(* isExcluded on its own: it is called with a path and a list of patterns, *)
(* then called again with the list reordered or with a pattern added.      *)
(***************************************************************************)
\* the longest pattern list
MaxPatterns == 3

ProbePaths ==
  {"notes.txt", "b.tmp", "a/b.tmp", ".git", ".git/config", ".git/a/b",
   "x/.git/c", "temp/x.log"}

ProbePatterns ==
  {"*.tmp", " *.tmp", ".git/", ".git/*", "temp/", "a/*.tmp", "notes.???",
   "", "  "}

\* main is not running
ProcIdle ==
  /\ okUploads = {}
  /\ delLog = {}
  /\ pc = "idle"
  /\ exitCode = -1
  /\ state = EmptyState
  /\ changedFiles = <<>>
  /\ walkIdx = 0
  /\ scanErr = FALSE
  /\ hashed = {}
  /\ b2Files = <<>>
  /\ stats = ZeroStats
  /\ upIdx = 0
  /\ delTodo = {}
  /\ retIdx = 0
  /\ state0 = EmptyState
  /\ events = <<>>
  /\ upLog = <<>>
  /\ lastRet = NoRet
  /\ remoteFail = FALSE
  /\ saveFailed = FALSE
  /\ startDeleted = {}
  /\ disk0 = NoDisk
  /\ lastUp = NoUp
  /\ pass = 0
  /\ firstChanged = <<>>

\* no run has been made
RunIdle ==
  /\ now = 0
  /\ cfg = NoConfig
  /\ edits = 0
  /\ ProcIdle

MainIdle ==
  /\ fs = EmptyTree
  /\ disk = NoDisk
  /\ remote = EmptyBucket
  /\ RunIdle

InitExclude ==
  /\ MainIdle
  /\ backup = NoDisk
  /\ sm = NoCall
  /\ runs = NoRuns
  /\ world = NoWorlds
  /\ \E x \in ProbePaths, n \in 0..2 :
       \E pats \in [1..n -> ProbePatterns] :
          probe = [NoProbe EXCEPT !.path = x, !.patterns = pats]

\* lines 110-151: isExcluded(path, patterns) is called
CallIsExcluded ==
  /\ ~ probe.called
  /\ probe' = [probe EXCEPT
                 !.called = TRUE,
                 !.result = isExcluded(probe.path, probe.patterns),
                 !.last = "call"]
  /\ UNCHANGED <<mainVars, backup, sm, runs, world>>

\* two patterns of the list change places and isExcluded is called again
Reorder ==
  /\ probe.called
  /\ \E i, j \in 1..Len(probe.patterns) :
       /\ i < j
       /\ LET pats == [probe.patterns EXCEPT ![i] = probe.patterns[j],
                                             ![j] = probe.patterns[i]]
          IN  probe' = [probe EXCEPT
                          !.patterns = pats,
                          !.prev = probe.result,
                          !.result = isExcluded(probe.path, pats),
                          !.last = "reorder"]
  /\ UNCHANGED <<mainVars, backup, sm, runs, world>>

\* a pattern is added to the list and isExcluded is called again
AddPattern ==
  /\ probe.called
  /\ Len(probe.patterns) < MaxPatterns
  /\ \E r \in ProbePatterns :
       LET pats == Append(probe.patterns, r)
       IN  probe' = [probe EXCEPT
                       !.patterns = pats,
                       !.prev = probe.result,
                       !.result = isExcluded(probe.path, pats),
                       !.last = "add"]
  /\ UNCHANGED <<mainVars, backup, sm, runs, world>>

NextExclude ==
  \/ CallIsExcluded
  \/ Reorder
  \/ AddPattern

SpecExclude == InitExclude /\ [][NextExclude]_vars

\* a pattern that is empty once the white space around it is removed
Blank(raw) == TrimSpace(raw) = ""

\* a pattern D/ and the directory D it names
DirStyle(raw) == ~ Blank(raw) /\ HasSuffix(TrimSpace(raw), "/")

DirOf(raw) == TrimSuffix(TrimSpace(raw), "/")

\* C21: a pattern without "/" excludes a path exactly when the glob matches
\* the path's base name; a pattern D/ excludes D and every path that begins
\* with D/; blank patterns exclude nothing; with the patterns "*.tmp" and
\* ".git/", a/b.tmp and .git/config are excluded and notes.txt is not.
C21_ExclusionRules ==
  probe.called =>
    LET pats == Range(probe.patterns)
        x == probe.path
    IN  /\ (\A r \in pats : Blank(r) \/ ~ Contains(TrimSpace(r), "/")) =>
             ( probe.result <=>
                 \E r \in pats : ~ Blank(r) /\ Match(TrimSpace(r), Base(x)) )
        /\ (\E r \in pats :
              DirStyle(r) /\ (x = DirOf(r) \/ HasPrefix(x, DirOf(r) \o "/")))
             => probe.result
        /\ (\A r \in pats : Blank(r)) => ~ probe.result
        /\ pats = {"*.tmp", ".git/"} =>
             ( probe.result <=>
                 x \in {"b.tmp", "a/b.tmp", ".git", ".git/config",
                        ".git/a/b"} )

\* a/b.tmp was found excluded by the list "*.tmp", ".git/"
C21_Witness ==
  /\ probe.called
  /\ probe.path = "a/b.tmp"
  /\ probe.patterns = <<"*.tmp", ".git/">>
  /\ probe.result

\* a pattern D/* and the directory D it names
DirGlob(raw) ==
  /\ HasSuffix(TrimSpace(raw), "/*")
  /\ ~ Contains(TrimSuffix(TrimSpace(raw), "/*"), "*")

\* C22: a pattern D/* excludes every file under the directory D, also the
\* files in sub-directories of D.
C22_DirGlobExcludesNested ==
  probe.called =>
    \A r \in Range(probe.patterns) :
       (DirGlob(r) /\ HasPrefix(probe.path, TrimSuffix(TrimSpace(r), "*")))
         => probe.result

\* C23: isExcluded gives the same result for every order of the pattern
\* list, and a pattern added to the list never turns an excluded path into
\* one that is not excluded.
C23_OrderIndependent ==
  /\ probe.last = "reorder" => probe.result = probe.prev
  /\ probe.last = "add" => (probe.prev => probe.result)

\* the only pattern of the list that excludes the path has moved from the
\* second place to the first, and the path is still excluded
C23_Witness ==
  /\ probe.last = "reorder"
  /\ Len(probe.patterns) = 2
  /\ probe.path = ".git/config"
  /\ probe.patterns = <<".git/", "*.tmp">>
  /\ probe.result
  /\ probe.prev

(***************************************************************************)
(* StateManager on its own (state_manager.go): SaveState, BackupState and  *)
(* RestoreState are called one after the other on the manifest file and    *)
(* its ".backup" copy; the process can be killed between two steps of a    *)
(* call.  os.WriteFile opens its file with O_TRUNC, then writes.           *)
(***************************************************************************)
\* the number of StateManager calls
MaxCalls == 4

\* the manifests SaveState is called with
SavedStates ==
  {EmptyState, UsedState, [UsedState EXCEPT !.LastBackup = 1]}

\* a file that os.WriteFile or os.Create has truncated
Truncated == [kind |-> "corrupt", st |-> EmptyState]

InitState ==
  /\ fs = EmptyTree
  /\ remote = EmptyBucket
  /\ RunIdle
  /\ disk \in {NoDisk, [kind |-> "ok", st |-> UsedState]}
  /\ backup = NoDisk
  /\ sm = NoCall
  /\ probe = NoProbe
  /\ runs = NoRuns
  /\ world = NoWorlds

\* no call is in progress and another one can be made
CanCall ==
  /\ sm.step \in {"idle", "done", "failed", "killed"}
  /\ sm.calls < MaxCalls

Begin(op, step) ==
  [sm EXCEPT !.op = op, !.step = step, !.data = NoDisk, !.calls = @ + 1]

\* SaveState
SaveState ==
  /\ CanCall
  /\ \E st \in SavedStates, outcome \in {"saved", "nocreate", "partial"} :
       /\ disk' = saveLocalState(disk, st, outcome)
       /\ sm' = Begin("save", IF outcome = "saved" THEN "done" ELSE "failed")
  /\ UNCHANGED <<mainButDisk, probe, backup, runs, world>>

\* BackupState: os.Stat and os.ReadFile of the state file
BackupStateRead ==
  /\ CanCall
  /\ IF disk.kind = "none"
     THEN sm' = Begin("backup", "done")
     ELSE \E readOk \in BOOLEAN :
            sm' = IF readOk
                  THEN [Begin("backup", "read") EXCEPT !.data = disk]
                  ELSE Begin("backup", "failed")
  /\ UNCHANGED <<mainVars, probe, backup, runs, world>>

\* BackupState: os.WriteFile opens the backup file
BackupStateOpen ==
  /\ sm.op = "backup"
  /\ sm.step = "read"
  /\ \E ok \in BOOLEAN :
       IF ok
       THEN /\ backup' = Truncated
            /\ sm' = [sm EXCEPT !.step = "open", !.kept = NoDisk]
       ELSE /\ sm' = [sm EXCEPT !.step = "failed"]
            /\ UNCHANGED backup
  /\ UNCHANGED <<mainVars, probe, runs, world>>

\* BackupState: os.WriteFile writes the data and returns
BackupStateWrite ==
  /\ sm.op = "backup"
  /\ sm.step = "open"
  /\ \E ok \in BOOLEAN :
       IF ok
       THEN /\ backup' = sm.data
            /\ sm' = [sm EXCEPT !.step = "done", !.kept = sm.data]
       ELSE /\ sm' = [sm EXCEPT !.step = "failed"]
            /\ UNCHANGED backup
  /\ UNCHANGED <<mainVars, probe, runs, world>>

\* RestoreState: os.Stat and os.ReadFile of the backup file
RestoreStateRead ==
  /\ CanCall
  /\ IF backup.kind = "none"
     THEN sm' = Begin("restore", "done")
     ELSE \E readOk \in BOOLEAN :
            sm' = IF readOk
                  THEN [Begin("restore", "read") EXCEPT !.data = backup]
                  ELSE Begin("restore", "failed")
  /\ UNCHANGED <<mainVars, probe, backup, runs, world>>

\* RestoreState: os.WriteFile opens the state file
RestoreStateOpen ==
  /\ sm.op = "restore"
  /\ sm.step = "read"
  /\ \E ok \in BOOLEAN :
       IF ok
       THEN /\ disk' = Truncated
            /\ sm' = [sm EXCEPT !.step = "open"]
       ELSE /\ sm' = [sm EXCEPT !.step = "failed"]
            /\ UNCHANGED disk
  /\ UNCHANGED <<mainButDisk, probe, backup, runs, world>>

\* RestoreState: os.WriteFile writes the data and returns
RestoreStateWrite ==
  /\ sm.op = "restore"
  /\ sm.step = "open"
  /\ \E ok \in BOOLEAN :
       IF ok
       THEN /\ disk' = sm.data
            /\ sm' = [sm EXCEPT !.step = "done"]
       ELSE /\ sm' = [sm EXCEPT !.step = "failed"]
            /\ UNCHANGED disk
  /\ UNCHANGED <<mainButDisk, probe, backup, runs, world>>

\* the process is killed between two steps of BackupState or RestoreState
Kill ==
  /\ sm.step \in {"read", "open"}
  /\ sm' = [sm EXCEPT !.step = "killed"]
  /\ UNCHANGED <<mainVars, probe, backup, runs, world>>

NextState ==
  \/ SaveState
  \/ BackupStateRead
  \/ BackupStateOpen
  \/ BackupStateWrite
  \/ RestoreStateRead
  \/ RestoreStateOpen
  \/ RestoreStateWrite
  \/ Kill

SpecState == InitState /\ [][NextState]_vars

\* a RestoreState that wrote the state file has returned nil, and the
\* backup file is the one a successful BackupState wrote
Restored ==
  /\ sm.op = "restore"
  /\ sm.step = "done"
  /\ sm.data.kind # "none"
  /\ sm.kept.kind # "none"

\* the round trip: the state file is what it was at the backup
C24_RoundTrip == Restored => disk = sm.kept

\* no step of BackupState or RestoreState that copies a complete manifest
\* leaves the file it writes with a part of it
C24_NoTornFile ==
  [][ (sm'.op \in {"backup", "restore"} /\ sm'.data.kind = "ok") =>
        /\ disk'.kind = "corrupt" => disk.kind = "corrupt"
        /\ backup'.kind = "corrupt" => backup.kind = "corrupt" ]_vars

\* C24: after a BackupState that succeeded on an existing state file, a
\* later successful RestoreState makes the state file equal to what it was
\* at the backup, whatever SaveState did in between; and BackupState and
\* RestoreState never leave the state file or the backup file partially
\* written, also when the process is killed between their steps.
C24_RoundTripAndAtomic == [] C24_RoundTrip /\ C24_NoTornFile

\* the path whose deletion the loop propagates when it deletes object n
DeletedFor(n) ==
  {p \in DOMAIN state.Files :
     /\ fs[p].kind = "none"
     /\ ~ IsTmp(p)
     /\ n \in {BackupPrefix \o p, BackupPrefix \o getMetadataFileName(p)}}

\* C28: the deletion loop deletes a remote object only if its name is the
\* prefix followed by a manifest path that is missing locally and not
\* excluded (or that object's companion); an object outside the prefix is
\* never deleted.
C28_DeletesOnlyUnderPrefix ==
  [][ pc = "delete" =>
        \A n \in NameSet :
           (remote[n].present /\ ~ remote'[n].present) =>
             /\ HasPrefix(n, BackupPrefix)
             /\ DeletedFor(n) # {} ]_vars

\* C29: after a deletion loop in which no remote delete failed, the
\* manifest has no path that is missing in the source tree and not
\* excluded, whether or not the bucket had an object for it.
C29_ManifestPurged ==
  (pc \in {"retention", "save"} /\ cfg.SyncDelete /\ stats.failed = 0) =>
     \A p \in DOMAIN state.Files : fs[p].kind = "none" => IsTmp(p)

\* C30 as stated: at the end of the upload loop, under every strategy, every
\* changed file that is counted as uploaded has a remote object at
\* prefix+path that holds the content of the local file.
C30_RemoteHoldsLocalContent ==
  UploadLoopOver =>
    \A i \in GoodAttempts :
       LET p == upLog[i][1]
           obj == remote[BackupPrefix \o p]
       IN  obj.present /\ obj.data = fs[p].content

\* C30 amended: at the end of the upload loop every changed file that is
\* counted as uploaded has a remote object at prefix+path; the object holds
\* the content of the local file when the file was transferred in this run,
\* which is always so under "none"; a file counted without being
\* transferred was skipped, under "basic" because the object has the size
\* of the file, under "full" with the metadata check enabled because the
\* companion object holds the checksum of the file, and the object then
\* holds what an earlier upload wrote.
C30_TransferredHoldsLocalContent ==
  UploadLoopOver =>
    \A i \in GoodAttempts :
       LET p == upLog[i][1]
           obj == remote[BackupPrefix \o p]
           meta == remote[BackupPrefix \o getMetadataFileName(p)]
       IN  /\ obj.present
           /\ upLog[i][2] = "sent" =>
                obj.data = fs[p].content /\ obj.size = LocalSize(p)
           /\ upLog[i][2] # "sent" =>
                /\ upLog[i][2] = "skipped"
                /\ cfg.MetadataStrategy # "none"
                /\ cfg.MetadataStrategy = "basic" => obj.size = LocalSize(p)
                /\ cfg.MetadataStrategy = "full" =>
                     /\ cfg.EnableMetadataCheck
                     /\ meta.present
                     /\ meta.data = LocalChecksum(p)

\* under "basic" e.txt is counted as uploaded and the object holds another
\* content of the same size
C30_Witness ==
  /\ UploadLoopOver
  /\ cfg.MetadataStrategy = "basic"
  /\ upLog = <<<<"e.txt", "skipped">>>>
  /\ stats.uploaded = 1
  /\ state.Files["e.txt"].BackedUp
  /\ remote["backups/e.txt"].data # fs["e.txt"].content

\* C26: a file whose record was loaded with uploaded = false (its upload
\* failed in the run that wrote the record) and that is still there is
\* detected by the scan as needing upload, modified since or not, so that
\* the upload loop attempts it again.
C26_FailedUploadRetried ==
  (pc = "scan" /\ pass = 0 /\ walkIdx > Len(WalkEntries) /\ ~ scanErr) =>
    \A p \in DOMAIN state0.Files :
       ( /\ ~ state0.Files[p].BackedUp
         /\ fs[p].kind = "file"
         /\ fs[p].content # 0
         /\ ~ IsTmp(p) )
         => \E i \in DOMAIN changedFiles : changedFiles[i] = p

\* C27: at the end of a run that finishes with failed = 0, every file that
\* exists in the source tree, is not excluded and has a manifest record
\* with uploaded = true has a remote object at prefix+path.
C27_UploadedFilesAreStored ==
  (pc = "done" /\ exitCode = 0 /\ disk.kind = "ok") =>
    \A p \in DOMAIN disk.st.Files :
       ( /\ disk.st.Files[p].BackedUp
         /\ fs[p].kind = "file"
         /\ ~ IsTmp(p) )
         => remote[BackupPrefix \o p].present

(***************************************************************************)
(* Two invocations of main against the same manifest file, source tree and *)
(* bucket.  Each process has its own localState, changedFiles and b2Files; *)
(* a step of a process is one call that reads or writes what they share:   *)
(* loadLocalState, the scan, getB2Files, one upload, one iteration of the  *)
(* deletion loop, saveLocalState.  Retention is off.                       *)
(***************************************************************************)
ConcurrentConfigs ==
  {c \in Configs : /\ c.SyncDelete
                   /\ c.RetentionDays = 0
                   /\ c.MetadataStrategy \in {"none", "basic"}}

\* the tree of an installation in use after an edit of e.txt and of d/c.txt
ConcurrentTrees ==
  {[UsedTree EXCEPT !["d/c.txt"] = c, !["e.txt"] = e] :
     c \in {NoEntry, FileEntry(1, 1)},
     e \in {NoEntry, FileEntry(1, 1), FileEntry(2, 2), FileEntry(3, 2)}}

InitConcurrent ==
  /\ fs \in ConcurrentTrees
  /\ disk = [kind |-> "ok", st |-> UsedState]
  /\ remote = UsedBucket
  /\ cfg \in ConcurrentConfigs
  /\ now = 1
  /\ edits = 0
  /\ ProcIdle
  /\ probe = NoProbe
  /\ backup = NoDisk
  /\ sm = NoCall
  /\ runs = NoRuns
  /\ world = NoWorlds

Other(i) == CHOOSE j \in Procs : j # i

Running(i) == runs[i].pc \notin {"idle", "done"}

\* lines 565-608: a process starts, loads the manifest and scans the tree
RunStart ==
  \E i \in Procs :
    /\ runs[i].pc = "idle"
    /\ LET l == loadLocalState(disk)
           r == scanAndCompareFiles(fs, l.st)
           over == Running(Other(i))
           me == [runs[i] EXCEPT !.overlapped = over]
       IN  runs' =
             [runs EXCEPT
                ![Other(i)].overlapped = @ \/ over,
                ![i] = IF l.err \/ r.err \/ r.changed = <<>>
                       THEN [me EXCEPT !.pc = "done"]
                       ELSE [me EXCEPT
                               !.pc = "connect",
                               !.state = [l.st EXCEPT !.Files = r.files],
                               !.changedFiles = r.changed]]
    /\ UNCHANGED <<mainVars, probe, backup, sm, world>>

\* lines 617-644: the process connects and lists the bucket
RunConnect ==
  \E i \in Procs :
    /\ runs[i].pc = "connect"
    /\ \E ok \in BOOLEAN :
         runs' = [runs EXCEPT
                    ![i] = IF ok
                           THEN [@ EXCEPT !.pc = "upload",
                                          !.b2Files = getB2Files(remote),
                                          !.upIdx = 1]
                           ELSE [@ EXCEPT !.pc = "done"]]
    /\ UNCHANGED <<mainVars, probe, backup, sm, world>>

\* lines 647-658: one iteration of the upload loop of a process
RunUpload ==
  \E i \in Procs :
    /\ runs[i].pc = "upload"
    /\ runs[i].upIdx <= Len(runs[i].changedFiles)
    /\ LET p == runs[i].changedFiles[runs[i].upIdx]
           checksum == runs[i].state.Files[p].Checksum
           info == fs[p]
       IN  \E attrsOk, metaOk, sent, metaStored \in BOOLEAN :
             LET skip == ShouldSkip(cfg, remote, p, info, checksum,
                                    attrsOk, metaOk)
                 ok == skip \/ sent
                 b1 == IF ~ skip /\ sent
                       THEN PutObject(remote, p, info, now) ELSE remote
                 b2 == IF ~ skip /\ sent /\ WritesMetadata(cfg) /\ metaStored
                       THEN storeFileMetadata(b1, p, checksum,
                                              SizeOf(info.content), now)
                       ELSE b1
                 r == CountUpload(runs[i].state, runs[i].stats, p, ok)
             IN  /\ remote' = b2
                 /\ runs' = [runs EXCEPT
                               ![i].state = r.state,
                               ![i].stats = r.stats,
                               ![i].upIdx = @ + 1,
                               ![i].sent = IF ok THEN @ \cup {p} ELSE @]
    /\ UNCHANGED <<mainButStores, disk, probe, backup, sm, world>>

\* lines 658-663: the upload loop of a process has ended
RunUploadDone ==
  \E i \in Procs :
    /\ runs[i].pc = "upload"
    /\ runs[i].upIdx > Len(runs[i].changedFiles)
    /\ runs' = [runs EXCEPT
                  ![i].pc = NextPhase("upload", cfg),
                  ![i].delTodo = DOMAIN runs[i].state.Files]
    /\ UNCHANGED <<mainVars, probe, backup, sm, world>>

\* lines 663-685: one iteration of the deletion loop of a process
RunDelete ==
  \E i \in Procs :
    /\ runs[i].pc = "delete"
    /\ \E p \in runs[i].delTodo :
         LET me == [runs[i] EXCEPT !.delTodo = @ \ {p}]
         IN  IF fs[p].kind # "none"
             THEN /\ runs' = [runs EXCEPT ![i] = me]
                  /\ UNCHANGED remote
             ELSE IF isExcluded(p, ExcludePatterns)
             THEN /\ runs' = [runs EXCEPT
                                ![i] = [me EXCEPT !.stats.skipped = @ + 1]]
                  /\ UNCHANGED remote
             ELSE IF p \notin DOMAIN runs[i].b2Files
             THEN /\ runs' = [runs EXCEPT ![i] = me]
                  /\ UNCHANGED remote
             ELSE \E deleted, metaGone \in BOOLEAN :
                    IF deleted
                    THEN /\ remote' = deleteB2File(remote, runs[i].b2Files[p],
                                                   cfg, metaGone)
                         /\ runs' =
                              [runs EXCEPT
                                 ![i] = [me EXCEPT
                                           !.stats.deleted = @ + 1,
                                           !.state.Files = RemoveKey(@, p),
                                           !.removed = @ \cup {p}]]
                    ELSE /\ runs' = [runs EXCEPT
                                       ![i] = [me EXCEPT
                                                 !.stats.failed = @ + 1]]
                         /\ UNCHANGED remote
    /\ UNCHANGED <<mainButStores, disk, probe, backup, sm, world>>

\* lines 686-695: the deletion loop of a process has ended; retention is off
RunDeleteDone ==
  \E i \in Procs :
    /\ runs[i].pc = "delete"
    /\ runs[i].delTodo = {}
    /\ runs' = [runs EXCEPT ![i].pc = "save"]
    /\ UNCHANGED <<mainVars, probe, backup, sm, world>>

\* lines 697-725: the process saves its manifest and exits
RunSave ==
  \E i \in Procs :
    /\ runs[i].pc = "save"
    /\ \E outcome \in {"saved", "nocreate", "partial"} :
         LET st == [runs[i].state EXCEPT !.LastBackup = now]
         IN  /\ disk' = saveLocalState(disk, st, outcome)
             /\ runs' = [runs EXCEPT ![i].pc = "done",
                                     ![i].state = st,
                                     ![i].saved = (outcome = "saved")]
    /\ UNCHANGED <<mainButDisk, probe, backup, sm, world>>

NextConcurrent ==
  \/ RunStart
  \/ RunConnect
  \/ RunUpload
  \/ RunUploadDone
  \/ RunDelete
  \/ RunDeleteDone
  \/ RunSave

SpecConcurrent == InitConcurrent /\ [][NextConcurrent]_vars

\* the manifest on disk has lost what process i saved: a path that i
\* removed after deleting its object is back, or a file that i uploaded is
\* recorded as not uploaded
LostUpdateOf(i) ==
  /\ runs[i].saved
  /\ disk.kind = "ok"
  /\ \/ \E p \in runs[i].removed : p \in DOMAIN disk.st.Files
     \/ \E p \in runs[i].sent :
          p \in DOMAIN disk.st.Files /\ ~ disk.st.Files[p].BackedUp

\* C25: two invocations that run one after the other lose nothing of what
\* each has saved; two that run at the same time can (C25_Witness): the
\* manifest saved last brings back a path the other one deleted remotely
\* and removed.
C25_SerializedRunsLoseNothing ==
  (\A i \in Procs : ~ runs[i].overlapped) =>
     \A i \in Procs : ~ LostUpdateOf(i)

\* both invocations have ended, they ran at the same time, and d/c.txt,
\* whose object one of them deleted, is back in the manifest
C25_Witness ==
  /\ \A i \in Procs : runs[i].pc = "done" /\ runs[i].overlapped
  /\ \E i \in Procs :
       /\ LostUpdateOf(i)
       /\ "d/c.txt" \in runs[i].removed
       /\ runs[Other(i)].saved
  /\ "d/c.txt" \in DOMAIN disk.st.Files
  /\ ~ remote["backups/d/c.txt"].present

(***************************************************************************)
(* A remote delete that failed, in the run and in the runs after it.        *)
(***************************************************************************)
\* the step is a call of deleteB2File for p that returned an error
DeleteFailedFor(p) ==
  /\ pc = "delete"
  /\ \E e \in delLog' \ delLog : e[1] = p /\ e[2] = now /\ ~ e[3]

\* lines 677-679: after the failed call the failed counter is one more, the
\* deleted counter and the manifest are as before and the loop goes on with
\* the paths that are left
C31_FailureKeepsPath ==
  [][\A p \in FilePaths :
       DeleteFailedFor(p) =>
         /\ stats'.failed = stats.failed + 1
         /\ stats'.deleted = stats.deleted
         /\ state'.Files = state.Files
         /\ p \in DOMAIN state'.Files
         /\ pc' = "delete"
         /\ delTodo' = delTodo \ {p}]_vars

\* the run has ended, by the return of main or after the notification, and
\* not in log.Fatalf
RunReturned ==
  /\ pc = "done"
  /\ exitCode = 0 \/ "notify" \in Range(events)

\* a later run that starts with sync-delete on, the path still in the
\* manifest, the file still missing and the object still in the bucket
\* calls deleteB2File for a path whose delete failed in an earlier run
C31_LaterRunRetries ==
  RunReturned =>
    \A p \in startDeleted :
      (\E e \in delLog : e[1] = p /\ e[2] < now /\ ~ e[3])
        => \E e \in delLog : e[1] = p /\ e[2] = now

\* C31 as stated: when the remote delete of a locally deleted path fails,
\* failed is incremented, the path stays in the manifest, deleted is
\* unchanged and the loop continues; the next run with sync-delete enabled
\* attempts the deletion of that path again.
C31_FailedDeleteRetried == C31_FailureKeepsPath /\ [] C31_LaterRunRetries

(***************************************************************************)
(* The counters at the end of a run.                                       *)
(***************************************************************************)
\* main has saved and is about to build the summary of lines 710-713
RunEnds == pc = "notify"

\* the files of this run whose content was written to the bucket, and the
\* files the upload judged duplicates
TransferredAttempts == {i \in DOMAIN upLog : upLog[i][2] = "sent"}

SkippedAttempts == {i \in DOMAIN upLog : upLog[i][2] = "skipped"}

\* the paths the manifest held after the scan and no longer holds
RemovedInRun ==
  (DOMAIN state0.Files \cup {changedFiles[i] : i \in DOMAIN changedFiles})
    \ DOMAIN state.Files

\* the calls of deleteB2File in this run that returned nil
DeletedInRun == {e \in delLog : e[2] = now /\ e[3]}

\* C32 as stated: at the end of a run uploaded plus the failures of the
\* upload loop is the number of changed files, deleted is the number of
\* paths removed from the manifest in the deletion phase, and uploaded is
\* the number of files whose content was transferred in this run.
C32_CountersConserved ==
  RunEnds =>
    /\ stats.uploaded + Cardinality(FailedAttempts) = Len(changedFiles)
    /\ stats.deleted = Cardinality(RemovedInRun)
    /\ stats.uploaded = Cardinality(TransferredAttempts)

\* C32, amended: uploaded counts the changed files whose upload returned
\* nil, that is the files transferred and the files skipped as duplicates;
\* it is the number of transfers under "none".  failed is the number of
\* failed uploads plus the number of failed deletes.
C32_CountersConservedAmended ==
  RunEnds =>
    /\ stats.uploaded + Cardinality(FailedAttempts) = Len(changedFiles)
    /\ stats.deleted = Cardinality(RemovedInRun)
    /\ stats.deleted = Cardinality(DeletedInRun)
    /\ stats.uploaded =
         Cardinality(TransferredAttempts) + Cardinality(SkippedAttempts)
    /\ cfg.MetadataStrategy = "none" =>
         stats.uploaded = Cardinality(TransferredAttempts)
    /\ stats.failed =
         Cardinality(FailedAttempts)
           + Cardinality({e \in delLog : e[2] = now /\ ~ e[3]})

\* a run ends in which one file was transferred and one was skipped as a
\* duplicate: uploaded is 2
C32_Witness ==
  /\ RunEnds
  /\ Len(changedFiles) = 2
  /\ Cardinality(TransferredAttempts) = 1
  /\ Cardinality(SkippedAttempts) = 1
  /\ stats.uploaded = 2

(***************************************************************************)
(* What change detection leaves alone (SpecDetect).                        *)
(***************************************************************************)
\* the record of p is what it was when the first scan began, or there is
\* none as there was none
RecordUntouched(p) ==
  /\ p \in DOMAIN state.Files <=> p \in DOMAIN state0.Files
  /\ p \in DOMAIN state0.Files => state.Files[p] = state0.Files[p]

\* C33: at every point of change detection a path that matches an exclude
\* pattern has the record it had before (path, size, modTime, checksum and
\* uploaded), or none if it had none, and is not in the changed list; a
\* directory has no record and is not in the changed list.
C33_ExclusionFrame ==
  /\ \A p \in Entries :
       isExcluded(p, ExcludePatterns) =>
         /\ RecordUntouched(p)
         /\ p \notin Range(changedFiles)
         /\ p \notin Range(firstChanged)
  /\ \A p \in Dirs :
       /\ p \notin DOMAIN state.Files
       /\ p \notin Range(changedFiles)
       /\ p \notin Range(firstChanged)

\* both scans have returned; b.tmp is a readable file with a record that
\* says not uploaded (a scan of it would set the flag), d is a directory,
\* and the first scan found changed files
C33_Witness ==
  /\ pc = "scanned"
  /\ ~ scanErr
  /\ fs["b.tmp"].kind = "file"
  /\ fs["b.tmp"].content # 0
  /\ "b.tmp" \in DOMAIN state0.Files
  /\ ~ state0.Files["b.tmp"].BackedUp
  /\ fs["d"].kind = "dir"
  /\ firstChanged # <<>>

(***************************************************************************)
(* The changed list and the manifest when change detection returns         *)
(* (SpecDetect).                                                           *)
(***************************************************************************)
\* filepath.Walk has returned (line 288), in the first call or the second
DetectionReturned ==
  \/ pc = "scan" /\ walkIdx > Len(WalkEntries)
  \/ pc = "scanned"

\* the record a scan builds for the file at p as it is now (lines 271-277)
ObservedRecord(p) == NewFileState(p, fs[p], DigestOf(fs[p].content))

\* every returned record is the manifest's record of its path, says not
\* uploaded and has the size, modTime and checksum of the file; no path is
\* returned twice
ReturnedAgree ==
  /\ \A i \in DOMAIN changedFiles :
       /\ changedFiles[i] \in DOMAIN state.Files
       /\ fs[changedFiles[i]].kind = "file"
       /\ state.Files[changedFiles[i]] = ObservedRecord(changedFiles[i])
       /\ ~ state.Files[changedFiles[i]].BackedUp
  /\ \A i, j \in DOMAIN changedFiles :
       changedFiles[i] = changedFiles[j] => i = j

\* the walk called its callback for the file at p
VisitedFile(p) == fs[p].kind = "file"

\* the callback compared the file with its record (lines 248-251): the
\* path is not excluded and the checksum could be computed
ComparedFile(p) ==
  /\ fs[p].kind = "file"
  /\ ~ isExcluded(p, ExcludePatterns)
  /\ fileChecksum(fs[p]).ok

\* C34 as stated: when change detection returns, every returned record is
\* the manifest's record for its path, has uploaded = false and carries
\* the observed size, modTime and checksum; the returned paths are pairwise
\* distinct; every manifest record not in the returned list that was
\* visited by the walk has uploaded = true.
C34_ChangedSetAgrees ==
  (DetectionReturned /\ ~ scanErr) =>
    /\ ReturnedAgree
    /\ \A p \in DOMAIN state.Files \ Range(changedFiles) :
         VisitedFile(p) => state.Files[p].BackedUp

\* C34, amended: the records not returned that have uploaded = true are
\* those of the files the walk compared; the record of a visited file that
\* is excluded or whose checksum could not be computed is left as it was.
C34_ChangedSetAgreesAmended ==
  DetectionReturned =>
    /\ ReturnedAgree
    /\ ~ scanErr =>
         \A p \in DOMAIN state.Files \ Range(changedFiles) :
           /\ ComparedFile(p) => state.Files[p].BackedUp
           /\ (VisitedFile(p) /\ ~ ComparedFile(p)) =>
                state.Files[p] = state0.Files[p]

\* the first scan has returned: it found the new file d/c.txt changed and
\* e.txt, whose record said not uploaded, not changed; the excluded b.tmp
\* has a record that says not uploaded
C34_Witness ==
  /\ pc = "scan"
  /\ pass = 1
  /\ walkIdx > Len(WalkEntries)
  /\ ~ scanErr
  /\ changedFiles = <<"d/c.txt">>
  /\ "d/c.txt" \notin DOMAIN state0.Files
  /\ VisitedFile("b.tmp")
  /\ "b.tmp" \in DOMAIN state.Files
  /\ ~ state.Files["b.tmp"].BackedUp
  /\ "e.txt" \in DOMAIN state0.Files
  /\ ~ state0.Files["e.txt"].BackedUp
  /\ ComparedFile("e.txt")
  /\ state.Files["e.txt"].BackedUp

(***************************************************************************)
(* The companion object when an object is deleted.                         *)
(***************************************************************************)
\* the name deleteB2File computes for the companion of an object
\* (lines 421-426)
CompanionOf(name) ==
  BackupPrefix \o getMetadataFileName(TrimPrefix(name, BackupPrefix))

\* the calls of deleteB2File made by this step
NewDeletes == IF pc = "delete" THEN delLog' \ delLog ELSE {}

\* what every call does: a delete that fails changes nothing and counts as
\* failed; one that succeeds removes the object, counts as deleted whatever
\* happens to the companion, and touches no object but the companion
DeleteEffect(e) ==
  LET name == b2Files[e[1]]
  IN  /\ ~ e[3] => /\ remote' = remote
                   /\ e[4] = "none"
                   /\ stats'.failed = stats.failed + 1
                   /\ stats'.deleted = stats.deleted
      /\ e[3] => /\ ~ remote'[name].present
                 /\ stats'.deleted = stats.deleted + 1
                 /\ stats'.failed = stats.failed
                 /\ \A n \in NameSet \ {name, CompanionOf(name)} :
                      remote'[n] = remote[n]
      /\ (e[4] = "deleted" /\ CompanionOf(name) \in NameSet) =>
           ~ remote'[CompanionOf(name)].present
      /\ (e[4] # "deleted" /\ CompanionOf(name) \in NameSet
            /\ CompanionOf(name) # name) =>
           remote'[CompanionOf(name)] = remote[CompanionOf(name)]

\* C35 as stated: under "full" a successful delete is followed by a
\* best-effort delete of the companion at path + ".meta", whose failure or
\* absence does not fail the operation; when the delete of the object fails
\* the companion is not deleted and the operation fails; under the other
\* strategies no companion delete is issued.
C35_CompanionOnDelete ==
  [][\A e \in NewDeletes :
       /\ DeleteEffect(e)
       /\ (cfg.MetadataStrategy = "full" /\ e[3]) => e[4] # "none"
       /\ cfg.MetadataStrategy # "full" => e[4] = "none"]_vars

\* C35, amended: the companion delete is issued if and only if the strategy
\* is "full", ENABLE_METADATA_CHECK is on and the delete of the object
\* succeeded; under "full" with the switch off none is issued and a
\* companion object stays.
C35_CompanionOnDeleteAmended ==
  [][\A e \in NewDeletes :
       /\ DeleteEffect(e)
       /\ e[4] # "none" <=>
            (cfg.MetadataStrategy = "full" /\ cfg.EnableMetadataCheck
               /\ e[3])]_vars

\* under "full" with the metadata check on, e.txt was recorded and is gone
\* locally; the bucket held backups/e.txt and its companion when the loop
\* began, and both have been deleted
C35_Witness ==
  /\ pc = "delete"
  /\ cfg.MetadataStrategy = "full"
  /\ <<"e.txt", now, TRUE, "deleted">> \in delLog
  /\ b2Files["e.txt"] = "backups/e.txt"
  /\ "e.txt.meta" \in DOMAIN b2Files
  /\ ~ remote["backups/e.txt"].present
  /\ ~ remote["backups/e.txt.meta"].present
  /\ stats.deleted = 1

(***************************************************************************)
(* The two orchestrators side by side: main of main.go and main of the     *)
(* modular program (StateManager, FileScanner, B2Storage,                  *)
(* EmailNotification).  Each runs once, on its own copy of the same        *)
(* manifest directory, manifest file and bucket, over the same source tree *)
(* and with the same configuration; every call of the two gets the same    *)
(* answer from the file system and from the remote store.  runs[i] is the  *)
(* memory of orchestrator i and world[i] what it runs on.                  *)
(***************************************************************************)
Monolithic == 1

Modular == 2

\* the source trees of the runs
ModularTrees ==
  {[UsedTree EXCEPT !["d/c.txt"] = c, !["e.txt"] = e] :
     c \in {NoEntry, FileEntry(1, 1)},
     e \in {NoEntry, FileEntry(1, 1), FileEntry(2, 2)}}

\* what both start on: an installation in use, or a new one whose manifest
\* directory exists or not (no directory, no file)
ModularStarts ==
  {[NoWorld EXCEPT !.disk = [kind |-> "ok", st |-> UsedState],
                   !.remote = UsedBucket]}
    \cup {[NoWorld EXCEPT !.dir = d, !.remote = b] :
            d \in BOOLEAN, b \in {EmptyBucket, UsedBucket}}

InitModular ==
  /\ fs \in ModularTrees
  /\ cfg \in Configs
  /\ now = 2
  /\ edits = 0
  /\ disk = NoDisk
  /\ remote = EmptyBucket
  /\ ProcIdle
  /\ probe = NoProbe
  /\ backup = NoDisk
  /\ sm = NoCall
  /\ runs = NoRuns
  /\ \E w \in ModularStarts : world = [i \in Procs |-> w]

\* main.go 598-615, part_003 187-205: load the manifest, scan, return when
\* nothing changed
OrchStart(r, w) ==
  LET l == loadLocalState(w.disk)
      sc == scanAndCompareFiles(fs, l.st)
  IN  IF l.err \/ sc.err
      THEN [run |-> [r EXCEPT !.pc = "done"],
            world |-> [w EXCEPT !.exitCode = 1]]
      ELSE IF sc.changed = <<>>
      THEN [run |-> [r EXCEPT !.pc = "done"],
            world |-> [w EXCEPT !.exitCode = 0]]
      ELSE [run |-> [r EXCEPT !.pc = "connect",
                              !.state = [l.st EXCEPT !.Files = sc.files],
                              !.changedFiles = sc.changed],
            world |-> w]

\* main.go 617-644, part_003 207-228: connect and list the bucket
OrchConnect(r, w, ok) ==
  IF ok
  THEN [run |-> [r EXCEPT !.pc = "upload",
                          !.b2Files = getB2Files(w.remote),
                          !.stats = ZeroStats,
                          !.upIdx = 1],
        world |-> w]
  ELSE [run |-> [r EXCEPT !.pc = "done"],
        world |-> [w EXCEPT !.exitCode = 1]]

\* main.go 647-658 with uploadFileToB2, part_003 230-242 with
\* B2Storage.UploadFile: one iteration of the upload loop
OrchUpload(r, w, attrsOk, metaOk, sent, metaStored) ==
  LET p == r.changedFiles[r.upIdx]
      checksum == r.state.Files[p].Checksum
      info == fs[p]
      skip == ShouldSkip(cfg, w.remote, p, info, checksum, attrsOk, metaOk)
      ok == skip \/ sent
      b1 == IF ~ skip /\ sent
            THEN PutObject(w.remote, p, info, now) ELSE w.remote
      b2 == IF ~ skip /\ sent /\ WritesMetadata(cfg) /\ metaStored
            THEN storeFileMetadata(b1, p, checksum, SizeOf(info.content), now)
            ELSE b1
      c == CountUpload(r.state, r.stats, p, ok)
  IN  [run |-> [r EXCEPT !.state = c.state,
                         !.stats = c.stats,
                         !.upIdx = @ + 1],
       world |-> [w EXCEPT
                    !.remote = b2,
                    !.calls = IF skip THEN @
                              ELSE Append(@, <<"upload", BackupPrefix \o p>>)]]

\* main.go 658-663 and 686-692, part_003 242-246 and 271-276: a loop has
\* ended and the next phase begins
OrchAdvance(r, w) ==
  LET next == NextPhase(r.pc, cfg)
  IN  [run |-> [r EXCEPT !.pc = next,
                         !.delTodo = IF next = "delete"
                                     THEN DOMAIN r.state.Files ELSE @],
       world |-> [w EXCEPT !.retIdx = IF next = "retention"
                                      THEN NextObject(w.remote, 1) ELSE @]]

\* main.go 663-685 with deleteB2File, part_003 247-270 with
\* B2Storage.DeleteFile and StateManager.RemoveFile: one iteration of the
\* deletion loop
OrchDelete(r, w, p, deleted, metaGone) ==
  LET me == [r EXCEPT !.delTodo = @ \ {p}]
  IN  IF fs[p].kind # "none"
      THEN [run |-> me, world |-> w]
      ELSE IF isExcluded(p, ExcludePatterns)
      THEN [run |-> [me EXCEPT !.stats.skipped = @ + 1], world |-> w]
      ELSE IF p \notin DOMAIN r.b2Files
      THEN [run |-> me, world |-> w]
      ELSE IF deleted
      THEN [run |-> [me EXCEPT !.stats.deleted = @ + 1,
                               !.state.Files = RemoveKey(@, p)],
            world |-> [w EXCEPT
                         !.remote = deleteB2File(@, r.b2Files[p], cfg,
                                                 metaGone),
                         !.calls = Append(@, <<"delete", r.b2Files[p]>>)]]
      ELSE [run |-> [me EXCEPT !.stats.failed = @ + 1],
            world |-> [w EXCEPT
                         !.calls = Append(@, <<"delete", r.b2Files[p]>>)]]

\* manageRetention (main.go 476-513), B2Storage.ManageRetention (part_000
\* 188-225): one iteration of the sweep
OrchRetention(r, w, attrsOk, deleted) ==
  LET name == RemoteNames[w.retIdx]
      issue == attrsOk /\ Expired(cfg, name, w.remote[name], now)
      b == IF issue /\ deleted
           THEN [w.remote EXCEPT ![name] = NoObject] ELSE w.remote
  IN  [run |-> r,
       world |-> [w EXCEPT
                    !.remote = b,
                    !.calls = IF issue THEN Append(@, <<"delete", name>>)
                              ELSE @,
                    !.retIdx = NextObject(b, w.retIdx + 1)]]

\* saveLocalState (main.go 197-211) where the directory of the file can be
\* missing: os.Create then fails
saveLocalStateIn(w, st, outcome) ==
  IF ~ w.dir THEN w
  ELSE [w EXCEPT !.disk = saveLocalState(@, st, outcome)]

\* StateManager.SaveState (part_002 49-69): os.MkdirAll on the directory
\* of the file (mkdirOk: it returned nil), then as saveLocalState
StateManagerSaveState(w, st, mkdirOk, outcome) ==
  IF ~ w.dir /\ ~ mkdirOk THEN w
  ELSE [w EXCEPT !.dir = TRUE,
                 !.disk = saveLocalState(@, st, outcome)]

\* main.go 697-725, part_003 281-322: the time of the backup is set, the
\* manifest is saved, the notification is sent and the process exits
OrchSave(i, r, w, mkdirOk, outcome) ==
  LET st == [r.state EXCEPT !.LastBackup = now]
      saved == IF i = Monolithic
               THEN saveLocalStateIn(w, st, outcome)
               ELSE StateManagerSaveState(w, st, mkdirOk, outcome)
  IN  [run |-> [r EXCEPT !.pc = "done", !.state = st,
                         !.saved = (saved.disk = [kind |-> "ok", st |-> st])],
       world |-> [saved EXCEPT
                    !.exitCode = IF Success(r.stats) THEN 0 ELSE 1]]

\* both orchestrators are at phase ph
BothAt(ph) == \A i \in Procs : runs[i].pc = ph

\* both take a step: mono is the result of the step of main.go, modu the
\* result of the step of the modular program
BothStep(mono, modu) ==
  /\ runs' = [i \in Procs |-> IF i = Monolithic THEN mono.run ELSE modu.run]
  /\ world' = [i \in Procs |->
                 IF i = Monolithic THEN mono.world ELSE modu.world]
  /\ UNCHANGED <<mainVars, probe, backup, sm>>

ModularStart ==
  /\ BothAt("idle")
  /\ LET step(i) == OrchStart(runs[i], world[i])
     IN  BothStep(step(Monolithic), step(Modular))

ModularConnect ==
  /\ BothAt("connect")
  /\ \E ok \in BOOLEAN :
       LET step(i) == OrchConnect(runs[i], world[i], ok)
       IN  BothStep(step(Monolithic), step(Modular))

ModularUpload ==
  /\ BothAt("upload")
  /\ \A i \in Procs : runs[i].upIdx <= Len(runs[i].changedFiles)
  /\ \E attrsOk, metaOk, sent, metaStored \in BOOLEAN :
       LET step(i) == OrchUpload(runs[i], world[i], attrsOk, metaOk, sent,
                                 metaStored)
       IN  BothStep(step(Monolithic), step(Modular))

ModularUploadDone ==
  /\ BothAt("upload")
  /\ \A i \in Procs : runs[i].upIdx > Len(runs[i].changedFiles)
  /\ LET step(i) == OrchAdvance(runs[i], world[i])
     IN  BothStep(step(Monolithic), step(Modular))

ModularDelete ==
  /\ BothAt("delete")
  /\ \E p \in runs[Monolithic].delTodo \cap runs[Modular].delTodo :
       \E deleted, metaGone \in BOOLEAN :
         LET step(i) == OrchDelete(runs[i], world[i], p, deleted, metaGone)
         IN  BothStep(step(Monolithic), step(Modular))

ModularDeleteDone ==
  /\ BothAt("delete")
  /\ \A i \in Procs : runs[i].delTodo = {}
  /\ LET step(i) == OrchAdvance(runs[i], world[i])
     IN  BothStep(step(Monolithic), step(Modular))

ModularRetention ==
  /\ BothAt("retention")
  /\ cfg.RetentionDays > 0
  /\ \A i \in Procs : world[i].retIdx <= Len(RemoteNames)
  /\ \E attrsOk, deleted \in BOOLEAN :
       LET step(i) == OrchRetention(runs[i], world[i], attrsOk, deleted)
       IN  BothStep(step(Monolithic), step(Modular))

\* retention is off, or the sweep has ended or its listing has failed
ModularRetentionEnd ==
  /\ BothAt("retention")
  /\ LET step(i) == OrchAdvance(runs[i], world[i])
     IN  BothStep(step(Monolithic), step(Modular))

ModularSave ==
  /\ BothAt("save")
  /\ \E mkdirOk \in BOOLEAN, outcome \in {"saved", "nocreate", "partial"} :
       LET step(i) == OrchSave(i, runs[i], world[i], mkdirOk, outcome)
       IN  BothStep(step(Monolithic), step(Modular))

NextModular ==
  \/ ModularStart
  \/ ModularConnect
  \/ ModularUpload
  \/ ModularUploadDone
  \/ ModularDelete
  \/ ModularDeleteDone
  \/ ModularRetention
  \/ ModularRetentionEnd
  \/ ModularSave

SpecModular == InitModular /\ [][NextModular]_vars

\* both runs have ended
BothEnded == BothAt("done")

\* the two runs issued the same uploads and deletes in the same order and
\* ended with the same counters and the same exit status
SameRemoteAndCounters ==
  /\ world[Monolithic].calls = world[Modular].calls
  /\ world[Monolithic].remote = world[Modular].remote
  /\ runs[Monolithic].stats = runs[Modular].stats
  /\ world[Monolithic].exitCode = world[Modular].exitCode

\* C36 as stated: for the same configuration, tree, starting manifest and
\* remote-store behaviour the run of main.go and the modular run issue the
\* same sequence of uploads and deletes, end with the same counters and
\* exit status and leave the same persisted manifest, also when the
\* directory of the manifest does not exist.
C36_OrchestratorsEquivalent ==
  BothEnded =>
    /\ SameRemoteAndCounters
    /\ world[Monolithic].disk = world[Modular].disk

====
